---- MODULE Spec2Model ----
(***************************************************************************)
(* Model of the per-site usage aggregator SiteUsageTracker (src/src/       *)
(* utils.ts): one Durable Object instance with its in-memory fields, its   *)
(* persistent storage, its alarm, the billing database it flushes to, and  *)
(* the platform events that drive it (requests, alarm, eviction, deploy);  *)
(* and, further down, of the CDN worker's fetch() with its R2 bucket and   *)
(* the origin (specification CdnSpec). SizeSpec, OriginSpec, AllowSpec,    *)
(* BlockSpec, HeaderSpec and RaceSpec drive parts of the worker (the size  *)
(* limit, fetchFromOrigin, the origin allow-list, the block               *)
(* classification, the headers sent to the origin, two invocations at a   *)
(* time) with inputs chosen for that part.                                 *)
(*                                                                         *)
(* Atomicity follows the platform's gates: storage operations keep the     *)
(* input gate closed, so fetch() and the constructor are single steps; the *)
(* only await that lets other events in is BILLING_DB.batch() in alarm(),  *)
(* which therefore splits alarm() at that await.                           *)
(***************************************************************************)
EXTENDS Integers, Sequences, FiniteSets, TLC

\* ------------------------------------------------------------- bounds
\* Record-events delivered in one behaviour.
MaxEvents == 2
\* Storage operations (put, setAlarm) that fail in one behaviour.
MaxFaults == 1
\* Cap on consecutive failing BILLING_DB.batch() calls.
MaxD1Failures == 5

\* ---------------------------------------------------------- constants
D1_FAILURE_ALERT_THRESHOLD == 5
ALARM_DELAY_MS == 60000

\* The clock advances a whole alarm period at a time: an alarm is either a
\* period away or due.
TickMs == ALARM_DELAY_MS

\* The site this instance is addressed by: every payload carries it.
SiteIds == {1}
Domains == {"example.com"}

STORAGE_KEYS ==
  [SITE_ID |-> "siteId", DOMAIN_KEY |-> "domain", REQUESTS |-> "requests",
   CACHE_HITS |-> "cacheHits", CACHE_MISSES |-> "cacheMisses",
   D1_FAILURES |-> "d1Failures"]

VARIABLES
  envBillingDb,   \* env.BILLING_DB is bound
  alive,          \* the instance is in memory (constructed, not evicted)
  this,           \* the instance's in-memory fields
  storage,        \* state.storage: a map from the keys present to values
  alarm,          \* state.storage's alarm: <<>> or <<ms until it is due>>
  pc,             \* "idle", or "flushing" while alarm() awaits batch()
  flush,          \* alarm()'s locals flushRequests, flushCacheHits, ...
  d1,             \* the billing database: sites rows and usage_hourly rows
  faults,         \* storage operations that have failed so far
  recorded,       \* history: record-events handled, by kind
  acked,          \* history: record-events answered 200, by kind
  during,         \* history: record-events handled since the last snapshot
  owed,           \* history: snapshot of the last flush whose batch() failed,
                  \*   and whether storage held at least that much
  zeroed,         \* history: an unconfigured alarm() has cleared the storage
  last,           \* history: the step just taken and its outcome
  env,            \* the worker's bindings ALLOWED_ORIGINS, MAX_FILE_SIZE
                  \*   and FETCH_TIMEOUT (under HeaderSpec ORIGIN_USER_AGENT
                  \*   and FORWARD_CLIENT_IP too)
  r2,             \* the R2 bucket: a map from the keys present to objects
  handlers,       \* the worker's fetch() invocations in progress
  out,            \* history: the invocation that returned last
  fetching        \* each invocation's fetchFromOrigin(): its timeout timer,
                  \*   and (history) the requests sent and the final verdict

trackerVars == <<envBillingDb, alive, this, storage, alarm, pc, flush, d1,
                 faults, recorded, acked, during, owed, zeroed, last>>
cdnVars == <<env, r2, handlers, out, fetching>>
vars == <<envBillingDb, alive, this, storage, alarm, pc, flush, d1, faults,
          recorded, acked, during, owed, zeroed, last, env, r2, handlers, out,
          fetching>>

Zero3 == [requests |-> 0, cacheHits |-> 0, cacheMisses |-> 0]

\* Field initialisers of the class.
FieldDefaults ==
  [siteId |-> 0, domain |-> "", requests |-> 0, cacheHits |-> 0,
   cacheMisses |-> 0, d1Failures |-> 0, initialized |-> FALSE]

\* No handler has returned since the last platform step.
NoReturn == [op |-> "none", status |-> 0, timer |-> FALSE, alert |-> FALSE]

NothingOwed ==
  [requests |-> 0, cacheHits |-> 0, cacheMisses |-> 0, persisted |-> FALSE]

NoFlush == [requests |-> 0, cacheHits |-> 0, cacheMisses |-> 0, siteId |-> 0]

\* ------------------------------------------------------------ storage
\* stored.get(key) || dflt
StoredOr(key, dflt) == IF key \in DOMAIN storage THEN storage[key] ELSE dflt

\* state.storage.put(updates)
StoragePut(updates) ==
  [k \in DOMAIN storage \cup DOMAIN updates |->
     IF k \in DOMAIN updates THEN updates[k] ELSE storage[k]]

\* state.storage.deleteAll()
StorageDeleteAll == [k \in {} |-> 0]

\* The three usage counters of a record.
Counters(t) ==
  [requests |-> t.requests, cacheHits |-> t.cacheHits,
   cacheMisses |-> t.cacheMisses]

\* The usage counters as storage holds them.
Persisted ==
  [requests |-> StoredOr(STORAGE_KEYS.REQUESTS, 0),
   cacheHits |-> StoredOr(STORAGE_KEYS.CACHE_HITS, 0),
   cacheMisses |-> StoredOr(STORAGE_KEYS.CACHE_MISSES, 0)]

AtLeast(a, b) ==
  /\ a.requests >= b.requests
  /\ a.cacheHits >= b.cacheHits
  /\ a.cacheMisses >= b.cacheMisses

\* A storage operation may fail while the fault budget lasts.
Outcomes == IF faults < MaxFaults THEN {TRUE, FALSE} ELSE {TRUE}

Faults(oks) == Cardinality({i \in DOMAIN oks : ~oks[i]})

\* Date.now() + 60000, as time until due
NextAlarm == <<ALARM_DELAY_MS>>

\* ------------------------------------------------------- construction
\* Mutant: the constructor loads nothing.
LoadFromStorageNothing == FieldDefaults

LoadFromStorage ==
  LET sid == StoredOr(STORAGE_KEYS.SITE_ID, 0)
      dom == StoredOr(STORAGE_KEYS.DOMAIN_KEY, "")
  IN  [siteId |-> sid,
       domain |-> dom,
       requests |-> StoredOr(STORAGE_KEYS.REQUESTS, 0),
       cacheHits |-> StoredOr(STORAGE_KEYS.CACHE_HITS, 0),
       cacheMisses |-> StoredOr(STORAGE_KEYS.CACHE_MISSES, 0),
       d1Failures |-> StoredOr(STORAGE_KEYS.D1_FAILURES, 0),
       initialized |-> (sid # 0 \/ dom # "")]

\* Mutant: the constructor sets its alarm over the one it found.
ConstructorAlarmClobber(existingAlarm) ==
  IF envBillingDb THEN NextAlarm ELSE existingAlarm

\* Mutant: the constructor sets its alarm without looking at BILLING_DB.
ConstructorAlarmUnbound(existingAlarm) ==
  IF existingAlarm = <<>> THEN NextAlarm ELSE existingAlarm

\* The alarm after the constructor, given what getAlarm() returned.
ConstructorAlarm(existingAlarm) ==
  IF existingAlarm = <<>> /\ envBillingDb THEN NextAlarm ELSE existingAlarm

\* A request reaches the evicted object: the platform constructs it.
Construct ==
  /\ ~alive
  /\ alive' = TRUE
  /\ this' = LoadFromStorage
  /\ alarm' = ConstructorAlarm(alarm)
  /\ last' = [op |-> "construct", status |-> 0, timer |-> FALSE, alert |-> FALSE]
  /\ UNCHANGED <<envBillingDb, storage, pc, flush, d1, faults, recorded, acked,
                 during, owed, zeroed>>
  /\ UNCHANGED cdnVars

\* The platform evicts an instance that runs no handler.
Evict ==
  /\ alive
  /\ pc = "idle"
  /\ alive' = FALSE
  /\ this' = FieldDefaults
  /\ last' = NoReturn
  /\ UNCHANGED <<envBillingDb, storage, alarm, pc, flush, d1, faults,
                 recorded, acked, during, owed, zeroed>>
  /\ UNCHANGED cdnVars

\* A deploy binds or unbinds BILLING_DB; it restarts the instance. Like an
\* eviction it is taken between handlers.
Redeploy ==
  /\ pc = "idle"
  /\ envBillingDb' = ~envBillingDb
  /\ alive' = FALSE
  /\ this' = FieldDefaults
  /\ last' = NoReturn
  /\ UNCHANGED <<storage, alarm, pc, flush, d1, faults, recorded, acked, during,
                 owed, zeroed>>
  /\ UNCHANGED cdnVars

\* Time passes.
Tick ==
  /\ alarm # <<>>
  /\ alarm[1] > 0
  /\ alarm' = <<IF alarm[1] > TickMs THEN alarm[1] - TickMs ELSE 0>>
  /\ last' = NoReturn
  /\ UNCHANGED <<envBillingDb, alive, this, storage, pc, flush, d1, faults,
                 recorded, acked, during, owed, zeroed>>
  /\ UNCHANGED cdnVars

\* ------------------------------------------------------- record-event
Metrics == [siteId : SiteIds, domain : Domains, cacheHit : BOOLEAN]

\* Mutant: a miss is counted as a request only.
AccumulateHitsOnly(t, metrics) ==
  LET named == IF t.initialized THEN t
               ELSE [t EXCEPT !.initialized = TRUE,
                              !.siteId = metrics.siteId,
                              !.domain = metrics.domain]
  IN  [named EXCEPT
         !.requests = @ + 1,
         !.cacheHits = IF metrics.cacheHit THEN @ + 1 ELSE @]

\* Mutant: a record-event clears the failure counter.
AccumulateClearsFailures(t, metrics) ==
  LET named == IF t.initialized THEN t
               ELSE [t EXCEPT !.initialized = TRUE,
                              !.siteId = metrics.siteId,
                              !.domain = metrics.domain]
  IN  [named EXCEPT
         !.requests = @ + 1,
         !.cacheHits = IF metrics.cacheHit THEN @ + 1 ELSE @,
         !.cacheMisses = IF metrics.cacheHit THEN @ ELSE @ + 1,
         !.d1Failures = 0]

\* The fields after the handler's in-memory updates.
Accumulate(t, metrics) ==
  LET named == IF t.initialized THEN t
               ELSE [t EXCEPT !.initialized = TRUE,
                              !.siteId = metrics.siteId,
                              !.domain = metrics.domain]
  IN  [named EXCEPT
         !.requests = @ + 1,
         !.cacheHits = IF metrics.cacheHit THEN @ + 1 ELSE @,
         !.cacheMisses = IF metrics.cacheHit THEN @ ELSE @ + 1]

\* Mutant: the requests counter is left out of the write.
FetchUpdatesWithoutRequests(t, metrics) ==
  (STORAGE_KEYS.CACHE_HITS :> Accumulate(t, metrics).cacheHits)
  @@ (STORAGE_KEYS.CACHE_MISSES :> Accumulate(t, metrics).cacheMisses)

\* The map handed to state.storage.put().
FetchUpdates(t, metrics) ==
  LET counters ==
        (STORAGE_KEYS.REQUESTS :> Accumulate(t, metrics).requests)
        @@ (STORAGE_KEYS.CACHE_HITS :> Accumulate(t, metrics).cacheHits)
        @@ (STORAGE_KEYS.CACHE_MISSES :> Accumulate(t, metrics).cacheMisses)
  IN  IF t.initialized THEN counters
      ELSE counters @@ (STORAGE_KEYS.SITE_ID :> metrics.siteId)
                    @@ (STORAGE_KEYS.DOMAIN_KEY :> metrics.domain)

Count(r, metrics) ==
  [requests |-> r.requests + 1,
   cacheHits |-> IF metrics.cacheHit THEN r.cacheHits + 1 ELSE r.cacheHits,
   cacheMisses |-> IF metrics.cacheHit THEN r.cacheMisses
                   ELSE r.cacheMisses + 1]

\* Mutant: a put that throws undoes the increments.
FetchRollsBack(metrics, putOk) ==
  /\ alive
  /\ recorded.requests < MaxEvents
  /\ this' = IF putOk THEN Accumulate(this, metrics) ELSE this
  /\ storage' = IF putOk THEN StoragePut(FetchUpdates(this, metrics))
                ELSE storage
  /\ faults' = faults + Faults(<<putOk>>)
  /\ recorded' = Count(recorded, metrics)
  /\ acked' = IF putOk THEN Count(acked, metrics) ELSE acked
  /\ during' = IF pc = "flushing" THEN Count(during, metrics) ELSE during
  /\ last' = [op |-> "fetch", status |-> IF putOk THEN 200 ELSE 500,
              timer |-> FALSE, alert |-> FALSE]
  /\ UNCHANGED <<envBillingDb, alive, alarm, pc, flush, d1, owed, zeroed>>
  /\ UNCHANGED cdnVars

\* fetch(request) with a well-formed payload; putOk is the storage's answer.
Fetch(metrics, putOk) ==
  /\ alive
  /\ recorded.requests < MaxEvents
  /\ this' = Accumulate(this, metrics)
  /\ storage' = IF putOk THEN StoragePut(FetchUpdates(this, metrics))
                ELSE storage
  /\ faults' = faults + Faults(<<putOk>>)
  /\ recorded' = Count(recorded, metrics)
  /\ acked' = IF putOk THEN Count(acked, metrics) ELSE acked
  /\ during' = IF pc = "flushing" THEN Count(during, metrics) ELSE during
  /\ last' = [op |-> "fetch", status |-> IF putOk THEN 200 ELSE 500,
              timer |-> FALSE, alert |-> FALSE]
  /\ UNCHANGED <<envBillingDb, alive, alarm, pc, flush, d1, owed, zeroed>>
  /\ UNCHANGED cdnVars

\* --------------------------------------------------------------- alarm
\* The alarm is due and no alarm() is running. An evicted instance is
\* constructed first; armedFirst says whether the platform had already
\* taken the due alarm off the schedule when the constructor asked.
AlarmDue == alarm = <<0>> /\ pc = "idle"

Woken == IF alive THEN this ELSE LoadFromStorage

\* Mutant: alarm() sets the next alarm as it starts.
AlarmAtEntryScheduled(armedFirst) == NextAlarm

\* The schedule as alarm() finds it: the alarm that fired is no longer set.
AlarmAtEntry(armedFirst) ==
  IF ~alive /\ armedFirst THEN ConstructorAlarm(<<>>) ELSE <<>>

\* alarm() with BILLING_DB unbound.
AlarmUnbound ==
  /\ AlarmDue
  /\ ~envBillingDb
  /\ alive' = TRUE
  /\ this' = [Woken EXCEPT !.requests = 0, !.cacheHits = 0, !.cacheMisses = 0]
  /\ storage' = StorageDeleteAll
  /\ alarm' = <<>>
  /\ zeroed' = TRUE
  /\ owed' = [owed EXCEPT !.persisted = FALSE]
  /\ last' = [op |-> "alarmUnbound", status |-> 0, timer |-> FALSE,
              alert |-> FALSE]
  /\ UNCHANGED <<envBillingDb, pc, flush, d1, faults, recorded, acked, during>>
  /\ UNCHANGED cdnVars

\* Mutant: the idle alarm() writes its counters back and clears the failure
\* counter, as the successful flush does.
AlarmIdleWritesBack(armedFirst, alarmOk) ==
  /\ AlarmDue
  /\ envBillingDb
  /\ Woken.requests = 0
  /\ alive' = TRUE
  /\ this' = [Woken EXCEPT !.d1Failures = 0]
  /\ storage' = StoragePut([k \in {STORAGE_KEYS.REQUESTS, STORAGE_KEYS.D1_FAILURES}
                              |-> 0])
  /\ alarm' = IF alarmOk THEN NextAlarm ELSE AlarmAtEntry(armedFirst)
  /\ faults' = faults + Faults(<<alarmOk>>)
  /\ last' = [op |-> "alarmIdle", status |-> 0, timer |-> alarmOk,
              alert |-> FALSE]
  /\ UNCHANGED <<envBillingDb, pc, flush, d1, recorded, acked, during, owed,
                 zeroed>>
  /\ UNCHANGED cdnVars

\* alarm() with nothing accumulated: only the alarm is set again.
AlarmIdle(armedFirst, alarmOk) ==
  /\ AlarmDue
  /\ envBillingDb
  /\ Woken.requests = 0
  /\ alive' = TRUE
  /\ this' = Woken
  /\ alarm' = IF alarmOk THEN NextAlarm ELSE AlarmAtEntry(armedFirst)
  /\ faults' = faults + Faults(<<alarmOk>>)
  /\ last' = [op |-> "alarmIdle", status |-> 0, timer |-> alarmOk,
              alert |-> FALSE]
  /\ UNCHANGED <<envBillingDb, storage, pc, flush, d1, recorded, acked, during,
                 owed, zeroed>>
  /\ UNCHANGED cdnVars

\* Mutant: the locals are captured as zero.
SnapshotNothing(t) ==
  [requests |-> 0, cacheHits |-> 0, cacheMisses |-> 0, siteId |-> t.siteId]

\* The values captured before the first await.
Snapshot(t) ==
  [requests |-> t.requests, cacheHits |-> t.cacheHits,
   cacheMisses |-> t.cacheMisses, siteId |-> t.siteId]

\* alarm() up to its await of BILLING_DB.batch().
AlarmSnapshot(armedFirst) ==
  /\ AlarmDue
  /\ envBillingDb
  /\ Woken.requests # 0
  /\ alive' = TRUE
  /\ this' = Woken
  /\ flush' = Snapshot(Woken)
  /\ pc' = "flushing"
  /\ alarm' = AlarmAtEntry(armedFirst)
  /\ during' = Zero3
  /\ last' = [op |-> "alarmSnapshot", status |-> 0, timer |-> FALSE,
              alert |-> FALSE]
  /\ UNCHANGED <<envBillingDb, storage, d1, faults, recorded, acked, owed, zeroed>>
  /\ UNCHANGED cdnVars

\* The batch: UPDATE sites ... WHERE id = ?, and the usage_hourly upsert.
D1Batch(db, f) ==
  [sites |->
     [s \in DOMAIN db.sites |->
        IF s = f.siteId
        THEN [cache_hits |-> db.sites[s].cache_hits + f.cacheHits,
              cache_misses |-> db.sites[s].cache_misses + f.cacheMisses]
        ELSE db.sites[s]],
   usage_hourly |->
     [s \in DOMAIN db.usage_hourly |->
        IF s = f.siteId
        THEN [requests |-> db.usage_hourly[s].requests + f.requests,
              cacheHits |-> db.usage_hourly[s].cacheHits + f.cacheHits,
              cacheMisses |-> db.usage_hourly[s].cacheMisses + f.cacheMisses]
        ELSE db.usage_hourly[s]]]

\* Mutant: the counters are reset instead of decremented.
ResetAfterFlush(t, f) ==
  [t EXCEPT !.requests = 0, !.cacheHits = 0, !.cacheMisses = 0,
            !.d1Failures = 0]

\* Mutant: only the requests counter is decremented.
SubtractRequestsOnly(t, f) ==
  [t EXCEPT !.requests = @ - f.requests, !.d1Failures = 0]

\* Mutant: the failure counter survives a batch that succeeded.
SubtractFlushedKeepFailures(t, f) ==
  [t EXCEPT !.requests = @ - f.requests,
            !.cacheHits = @ - f.cacheHits,
            !.cacheMisses = @ - f.cacheMisses]

\* The fields after a batch that succeeded.
SubtractFlushed(t, f) ==
  [t EXCEPT !.requests = @ - f.requests,
            !.cacheHits = @ - f.cacheHits,
            !.cacheMisses = @ - f.cacheMisses,
            !.d1Failures = 0]

\* Mutant: zeros are persisted instead of the decremented counters.
FlushedUpdatesZero(t) ==
  (STORAGE_KEYS.REQUESTS :> 0)
  @@ (STORAGE_KEYS.CACHE_HITS :> 0)
  @@ (STORAGE_KEYS.CACHE_MISSES :> 0)
  @@ (STORAGE_KEYS.D1_FAILURES :> 0)

\* The map persisted after a batch that succeeded.
FlushedUpdates(t) ==
  (STORAGE_KEYS.REQUESTS :> t.requests)
  @@ (STORAGE_KEYS.CACHE_HITS :> t.cacheHits)
  @@ (STORAGE_KEYS.CACHE_MISSES :> t.cacheMisses)
  @@ (STORAGE_KEYS.D1_FAILURES :> 0)

\* Mutant: the alarm is not set again.
NoReschedule(alarmOk) == alarm

\* The finally block: the alarm is set again unless setAlarm throws.
Reschedule(alarmOk) == IF alarmOk THEN NextAlarm ELSE alarm

\* alarm() after a batch that succeeded; putOk is the storage's answer.
AlarmFlushed(putOk, alarmOk) ==
  /\ pc = "flushing"
  /\ faults + Faults(<<putOk, alarmOk>>) <= MaxFaults
  /\ d1' = D1Batch(d1, flush)
  /\ this' = SubtractFlushed(this, flush)
  /\ storage' = IF putOk THEN StoragePut(FlushedUpdates(SubtractFlushed(this, flush)))
                ELSE storage
  /\ alarm' = Reschedule(alarmOk)
  /\ faults' = faults + Faults(<<putOk, alarmOk>>)
  /\ pc' = "idle"
  /\ flush' = NoFlush
  /\ owed' = NothingOwed
  /\ last' = [op |-> IF putOk THEN "flushed" ELSE "flushedPutFailed",
              status |-> 0, timer |-> alarmOk, alert |-> FALSE]
  /\ during' = Zero3
  /\ UNCHANGED <<envBillingDb, alive, recorded, acked, zeroed>>
  /\ UNCHANGED cdnVars

\* Mutant: a failed batch clears the counters it could not write.
CountFailureAndClear(t) ==
  [t EXCEPT !.d1Failures = @ + 1, !.requests = 0, !.cacheHits = 0,
            !.cacheMisses = 0]

\* The fields after a batch that failed.
CountFailure(t) == [t EXCEPT !.d1Failures = @ + 1]

\* alarm() after a batch that failed.
AlarmFailed(putOk, alarmOk) ==
  /\ pc = "flushing"
  /\ this.d1Failures < MaxD1Failures
  /\ faults + Faults(<<putOk, alarmOk>>) <= MaxFaults
  /\ this' = CountFailure(this)
  /\ storage' = IF putOk
                THEN StoragePut(STORAGE_KEYS.D1_FAILURES :> CountFailure(this).d1Failures)
                ELSE storage
  /\ alarm' = Reschedule(alarmOk)
  /\ faults' = faults + Faults(<<putOk, alarmOk>>)
  /\ pc' = "idle"
  /\ owed' = [requests |-> flush.requests, cacheHits |-> flush.cacheHits,
              cacheMisses |-> flush.cacheMisses,
              persisted |-> AtLeast(Persisted, flush)]
  /\ flush' = NoFlush
  /\ last' = [op |-> IF putOk THEN "failed" ELSE "failedPutFailed",
              status |-> 0, timer |-> alarmOk,
              alert |-> (putOk /\ CountFailure(this).d1Failures
                                    >= D1_FAILURE_ALERT_THRESHOLD)]
  /\ during' = Zero3
  /\ UNCHANGED <<envBillingDb, alive, d1, recorded, acked, zeroed>>
  /\ UNCHANGED cdnVars

\* ======================================================================
\* The CDN worker: fetch() of the worker module (src/unnamed/part_001,
\* lines 1-271), with validation.ts (src/unnamed/part_000), cache.ts
\* (src/src/cache.ts) and origin.ts (src/unnamed/part_002).
\*
\* A string is a sequence of one-character strings, so that split(),
\* includes(), endsWith() and the regular expressions are computed; "%2F",
\* "%20" and "%" in a pathname stand for an escaped "/", an escaped " " and
\* a malformed escape.
\* ======================================================================

\* ------------------------------------------------------------ strings
Uppers == <<"A", "B", "C", "D", "E", "F", "G", "H", "I", "J", "K", "L", "M", "N", "O", "P", "Q", "R", "S", "T", "U", "V", "W", "X", "Y", "Z">>
Lowers == <<"a", "b", "c", "d", "e", "f", "g", "h", "i", "j", "k", "l", "m", "n", "o", "p", "q", "r", "s", "t", "u", "v", "w", "x", "y", "z">>
Digits == {"0", "1", "2", "3", "4", "5", "6", "7", "8", "9"}

Range(s) == {s[i] : i \in DOMAIN s}

UpperChars == Range(Uppers)
LowerChars == Range(Lowers)

LowerChar(c) ==
  IF c \in UpperChars THEN Lowers[CHOOSE i \in DOMAIN Uppers : Uppers[i] = c]
  ELSE c

\* String.prototype.toLowerCase
ToLowerCase(s) == [i \in DOMAIN s |-> LowerChar(s[i])]

\* String.prototype.startsWith, endsWith, includes
StartsWith(s, t) == Len(t) <= Len(s) /\ SubSeq(s, 1, Len(t)) = t
EndsWith(s, t) == Len(t) <= Len(s) /\ SubSeq(s, Len(s) - Len(t) + 1, Len(s)) = t
Includes(s, t) ==
  \E i \in 1..(Len(s) - Len(t) + 1) : SubSeq(s, i, i + Len(t) - 1) = t

\* String.prototype.split(sep) for a one-character separator: "" gives [""].
RECURSIVE Split(_, _)
Split(s, sep) ==
  IF \A i \in DOMAIN s : s[i] # sep THEN <<s>>
  ELSE LET i == CHOOSE k \in DOMAIN s : s[k] = sep /\ \A j \in 1..(k - 1) : s[j] # sep
       IN  <<SubSeq(s, 1, i - 1)>> \o Split(SubSeq(s, i + 1, Len(s)), sep)

\* Array.prototype.join(sep)
RECURSIVE Join(_, _)
Join(parts, sep) ==
  IF Len(parts) = 0 THEN <<>>
  ELSE IF Len(parts) = 1 THEN parts[1]
  ELSE parts[1] \o <<sep>> \o Join(Tail(parts), sep)

\* String.prototype.trim
RECURSIVE Trim(_)
Trim(s) ==
  IF Len(s) > 0 /\ s[1] = " " THEN Trim(Tail(s))
  ELSE IF Len(s) > 0 /\ s[Len(s)] = " " THEN Trim(SubSeq(s, 1, Len(s) - 1))
  ELSE s

\* s.replace(/^\/+/, '')
RECURSIVE StripLeadingSlashes(_)
StripLeadingSlashes(s) ==
  IF Len(s) > 0 /\ s[1] = "/" THEN StripLeadingSlashes(Tail(s)) ELSE s

\* decodeURIComponent: throws URIError on a malformed escape.
DecodeThrows(s) == "%" \in Range(s)
DecodeURIComponent(s) ==
  [i \in DOMAIN s |-> IF s[i] = "%2F" THEN "/" ELSE IF s[i] = "%20" THEN " " ELSE s[i]]

\* encodeURIComponent of one path segment.
EncodeURIComponent(s) ==
  [i \in DOMAIN s |-> IF s[i] = "/" THEN "%2F" ELSE IF s[i] = " " THEN "%20" ELSE s[i]]

\* parseInt(s, 10): <<>> for NaN, else <<the value of the leading digits>>.
DigitChars == <<"0", "1", "2", "3", "4", "5", "6", "7", "8", "9">>
DigitValue(c) == (CHOOSE i \in DOMAIN DigitChars : DigitChars[i] = c) - 1

RECURSIVE LeadingDigits(_)
LeadingDigits(s) ==
  IF Len(s) > 0 /\ s[1] \in Digits THEN <<s[1]>> \o LeadingDigits(Tail(s)) ELSE <<>>

RECURSIVE DecimalValue(_)
DecimalValue(d) ==
  IF Len(d) = 0 THEN 0
  ELSE 10 * DecimalValue(SubSeq(d, 1, Len(d) - 1)) + DigitValue(d[Len(d)])

ParseInt(s) ==
  IF LeadingDigits(s) = <<>> THEN <<>> ELSE <<DecimalValue(LeadingDigits(s))>>

\* Number.prototype.toString of a natural number.
RECURSIVE Decimal(_)
Decimal(n) ==
  IF n < 10 THEN <<DigitChars[n + 1]>>
  ELSE Decimal(n \div 10) \o <<DigitChars[(n % 10) + 1]>>

\* request.headers.get(name): names are matched whatever their case; an
\* absent header and an empty one are both <<>>.
HeadersGet(headers, name) ==
  IF ToLowerCase(name) \in DOMAIN headers THEN headers[ToLowerCase(name)] ELSE <<>>

\* {...a, ...b}
Spread(a, b) ==
  [k \in DOMAIN a \cup DOMAIN b |-> IF k \in DOMAIN b THEN b[k] ELSE a[k]]

\* ---------------------------------------------------------- validation
IsAlnum(c) == c \in Digits \cup UpperChars \cup LowerChars

\* [a-z0-9](?:[a-z0-9-]{0,61}[a-z0-9])? with the i flag
IsLabel(l) ==
  /\ Len(l) >= 1 /\ Len(l) <= 63
  /\ IsAlnum(l[1]) /\ IsAlnum(l[Len(l)])
  /\ \A i \in DOMAIN l : IsAlnum(l[i]) \/ l[i] = "-"

\* \d{1,3}
IsOctet(l) == Len(l) >= 1 /\ Len(l) <= 3 /\ \A i \in DOMAIN l : l[i] \in Digits

isValidDomain(domain) ==
  LET labels == Split(domain, ".") IN
  \/ domain = <<"l", "o", "c", "a", "l", "h", "o", "s", "t">>
  \/ Len(labels) = 4 /\ \A i \in 1..4 : IsOctet(labels[i])
  \/ /\ Len(labels) >= 2
     /\ \A i \in DOMAIN labels : IsLabel(labels[i])
     /\ Len(labels[Len(labels)]) >= 2

\* Mutant: only "true" sets a flag.
IsFlagTrueOnly(param) == param = <<"true">>

\* url.searchParams.get(name) is <<>> (null) or <<value>>.
IsFlag(param) == param = <<"true">> \/ param = <<"1">>

HttpsPrefix == <<"h", "t", "t", "p", "s", ":", "/", "/">>

\* parseUrl: the parsed request, or the Error it throws.
parseUrl(url) ==
  IF DecodeThrows(url.pathname)
  THEN [ok |-> FALSE, error |-> [text |-> "URI malformed"]]
  ELSE
  LET decodedPathname == DecodeURIComponent(url.pathname)
      pathParts == Split(StripLeadingSlashes(decodedPathname), "/")
      domain == pathParts[1]
      path == <<"/">> \o Join(Tail(pathParts), "/")
      encodedPath == Join([i \in DOMAIN Split(path, "/") |->
                             EncodeURIComponent(Split(path, "/")[i])], "/")
  IN
  IF Len(pathParts) < 2
  THEN [ok |-> FALSE,
        error |-> [text |-> "Invalid URL format: /domain.com/path/to/image.jpg"]]
  ELSE IF ~isValidDomain(domain)
  THEN [ok |-> FALSE, error |-> [text |-> "Invalid domain: ", domain |-> domain]]
  ELSE [ok |-> TRUE,
        domain |-> domain,
        path |-> path,
        sourceUrl |-> [host |-> ToLowerCase(domain),
                       href |-> HttpsPrefix \o domain \o encodedPath],
        cacheKey |-> domain \o path,
        forceReprocess |-> IsFlag(url.force),
        viewImage |-> IsFlag(url.view)]

\* isAllowedOrigin: allowedOrigins is the string of the binding.
isAllowedOrigin(sourceUrl, allowedOrigins) ==
  \/ allowedOrigins = <<"*">>
  \/ LET origins == Split(allowedOrigins, ",")
         hostname == sourceUrl.host
     IN \E i \in DOMAIN origins :
          LET origin == ToLowerCase(Trim(origins[i])) IN
          \/ origin = <<"*">>
          \/ StartsWith(origin, <<"*", ".">>)
               /\ EndsWith(hostname, SubSeq(origin, 3, Len(origin)))
          \/ ~StartsWith(origin, <<"*", ".">>) /\ hostname = origin

imageTypes ==
  {<<"i", "m", "a", "g", "e", "/", "j", "p", "e", "g">>,
   <<"i", "m", "a", "g", "e", "/", "j", "p", "g">>,
   <<"i", "m", "a", "g", "e", "/", "p", "n", "g">>,
   <<"i", "m", "a", "g", "e", "/", "g", "i", "f">>,
   <<"i", "m", "a", "g", "e", "/", "w", "e", "b", "p">>,
   <<"i", "m", "a", "g", "e", "/", "a", "v", "i", "f">>,
   <<"i", "m", "a", "g", "e", "/", "s", "v", "g", "+", "x", "m", "l">>,
   <<"i", "m", "a", "g", "e", "/", "b", "m", "p">>,
   <<"i", "m", "a", "g", "e", "/", "t", "i", "f", "f">>,
   <<"i", "m", "a", "g", "e", "/", "x", "-", "i", "c", "o", "n">>,
   <<"i", "m", "a", "g", "e", "/", "h", "e", "i", "c">>,
   <<"i", "m", "a", "g", "e", "/", "h", "e", "i", "f">>,
   <<"i", "m", "a", "g", "e", "/", "j", "x", "l">>}

\* isImageContentType: contentType is "" when the header is missing.
isImageContentType(contentType) ==
  /\ contentType # <<>>
  /\ \E type \in imageTypes : Includes(ToLowerCase(contentType), type)

\* ------------------------------------------------------------- inputs
\* Concurrent invocations of fetch().
Slots == {1}

ACo == <<"a", ".", "c", "o">>
BCo == <<"b", ".", "c", "o">>

\* url.pathname of the requests tried.
Pathnames ==
  {<<"/">>,
   <<"/">> \o ACo,
   <<"/">> \o ACo \o <<"/", "x">>,
   <<"/">> \o ACo \o <<"%2F", "x">>,
   <<"/">> \o BCo \o <<"/", "x">>,
   <<"/", "c", "/", "x">>,
   <<"/", "%">>,
   <<"/", "h", "e", "a", "l", "t", "h">>}

Methods == {"GET", "HEAD", "DELETE", "POST", "OPTIONS"}

\* The body of an origin response or of an R2 object: the bytes, named, and
\* their number.
Bodies ==
  {[bytes |-> "p1", size |-> 1000], [bytes |-> "p2", size |-> 1000],
   [bytes |-> "h", size |-> 2000]}

\* R2 computes an object's etag from its bytes.
Etag(body) == body.bytes

\* A request: its method, the pathname and the force and view parameters of
\* its URL (<<>> when absent), and its If-None-Match header (<<>> when absent).
Requests ==
  [method : Methods, pathname : Pathnames, force : {<<>>}, view : {<<>>},
   ifNoneMatch : {<<>>}]
  \cup
  [method : {"GET"}, pathname : {<<"/">> \o ACo \o <<"/", "x">>},
   force : {<<>>, <<"true">>, <<"1">>, <<"0">>}, view : {<<>>, <<"1">>},
   ifNoneMatch : {<<>>, <<"p1">>}]
  \cup
  [method : {"GET"}, pathname : {<<"/">> \o BCo \o <<"/", "x">>},
   force : {<<"true">>}, view : {<<>>}, ifNoneMatch : {<<>>}]

JPEG == <<"i", "m", "a", "g", "e", "/", "j", "p", "e", "g">>
PNG_UPPER == <<"I", "M", "A", "G", "E", "/", "P", "N", "G">>
HTML == <<"t", "e", "x", "t", "/", "h", "t", "m", "l">>

\* What fetch() of the origin resolves to: a response with its status, its
\* Content-Type and Content-Length headers (<<>> when absent or empty) and
\* its body.
OriginResponses ==
  [status : {200}, contentType : {JPEG}, contentLength : {<<>>}, body : Bodies]
  \cup
  [status : {200}, contentType : {PNG_UPPER}, contentLength : {<<>>},
   body : {[bytes |-> "p2", size |-> 1000]}]
  \cup
  {[status |-> 200, contentType |-> JPEG, contentLength |-> Decimal(b.size),
    body |-> b] : b \in Bodies}
  \cup
  [status : {200}, contentType : {HTML, <<>>},
   contentLength : {<<>>, Decimal(2000)}, body : {[bytes |-> "h", size |-> 2000]}]
  \cup
  [status : {404, 500}, contentType : {HTML},
   contentLength : {<<>>}, body : {[bytes |-> "h", size |-> 2000]}]

\* env.MAX_FILE_SIZE as the binding's number and unit; <<>> when not set.
FileSizes == {<<>>, <<1, "KB">>, <<1, "XB">>}
\* The instants new Date() returns.
Times == {1, 2}

\* env.ALLOWED_ORIGINS; <<>> when not set.
AllowedOrigins == {<<>>, ACo}

\* The inputs of the size check: bodies around the limits, and
\* Content-Length headers that are absent, not a number, understated, exact
\* and overstated.
SizedBodies ==
  {[bytes |-> "s1023", size |-> 1023], [bytes |-> "s1024", size |-> 1024],
   [bytes |-> "s1025", size |-> 1025]}
SizedLengths ==
  {<<>>, <<"a", "b", "c">>, Decimal(1000), Decimal(1024), Decimal(1025),
   Decimal(2000)}
SizedResponses ==
  [status : {200}, contentType : {JPEG}, contentLength : SizedLengths,
   body : SizedBodies]
SizedFileSizes == {<<1, "KB">>, <<1025, "B">>}
SizedRequest ==
  [method |-> "GET", pathname |-> <<"/">> \o ACo \o <<"/", "x">>,
   force |-> <<"true">>, view |-> <<>>, ifNoneMatch |-> <<>>]

\* The inputs of fetchFromOrigin(): forced GETs of a public host and of a
\* private address, the targets a redirect may name, the origin's answers,
\* and env.FETCH_TIMEOUT (<<>> when not set).
PrivateAddress == <<"1", "0", ".", "0", ".", "0", ".", "1">>
LinkLocalAddress ==
  <<"1", "6", "9", ".", "2", "5", "4", ".", "1", "6", "9", ".", "2", "5", "4">>
FetchRequests ==
  [method : {"GET"},
   pathname : {<<"/">> \o ACo \o <<"/", "x">>,
               <<"/">> \o PrivateAddress \o <<"/", "x">>},
   force : {<<"true">>}, view : {<<>>}, ifNoneMatch : {<<>>}]
RedirectTargets ==
  {[scheme |-> "https", host |-> BCo],
   [scheme |-> "http", host |-> LinkLocalAddress],
   [scheme |-> "http", host |-> PrivateAddress]}
FetchedResponses ==
  {[status |-> 200, contentType |-> JPEG, contentLength |-> <<>>,
    body |-> [bytes |-> "p1", size |-> 1000]],
   [status |-> 404, contentType |-> HTML, contentLength |-> <<>>,
    body |-> [bytes |-> "h", size |-> 2000]]}
FetchTimeouts == {<<>>, Decimal(5000)}
\* Redirects followed in one fetch().
MaxHops == 2

\* The inputs of the origin check: GETs of hosts inside, beside and outside
\* example.com, and the ALLOWED_ORIGINS lists they are checked against.
AllowPathnames ==
  {<<"/", "i", "m", "g", ".", "e", "x", "a", "m", "p", "l", "e", ".", "c",
     "o", "m", "/", "x">>,
   <<"/", "e", "x", "a", "m", "p", "l", "e", ".", "c", "o", "m", "/", "x">>,
   <<"/", "n", "o", "t", "e", "x", "a", "m", "p", "l", "e", ".", "c", "o",
     "m", "/", "x">>,
   <<"/", "e", "x", "a", "m", "p", "l", "e", ".", "c", "o", "m", ".", "e",
     "v", "i", "l", ".", "c", "o", "m", "/", "x">>,
   <<"/", "a", ".", "b", ".", "e", "x", "a", "m", "p", "l", "e", ".", "c",
     "o", "m", "/", "x">>,
   <<"/", "I", "M", "G", ".", "E", "x", "a", "m", "p", "l", "e", ".", "c",
     "o", "m", "/", "x">>,
   <<"/", "o", "t", "h", "e", "r", ".", "o", "r", "g", "/", "x">>,
   <<"/", "e", "v", "i", "l", ".", "c", "o", "m", "/", "x">>}
AllowRequests ==
  [method : {"GET"}, pathname : AllowPathnames, force : {<<>>}, view : {<<>>},
   ifNoneMatch : {<<>>}]
AllowLists ==
  {<<>>,
   <<"*">>,
   <<"*", ".", "e", "x", "a", "m", "p", "l", "e", ".", "c", "o", "m">>,
   <<"e", "x", "a", "m", "p", "l", "e", ".", "c", "o", "m">>,
   <<" ", "E", "x", "a", "m", "p", "l", "e", ".", "C", "O", "M", " ", ",",
     " ", "o", "t", "h", "e", "r", ".", "o", "r", "g">>,
   <<"o", "t", "h", "e", "r", ".", "o", "r", "g", ",", "*", ".", "e", "x",
     "a", "m", "p", "l", "e", ".", "c", "o", "m">>,
   <<"o", "t", "h", "e", "r", ".", "o", "r", "g", ",", " ", "*">>,
   <<"*", ".", "E", "X", "A", "M", "P", "L", "E", ".", "c", "o", "m">>,
   <<"i", "m", "g", ".", "e", "x", "a", "m", "p", "l", "e", ".", "c", "o",
     "m">>,
   <<"e", "v", "i", "l", ".", "c", "o", "m">>,
   <<"*", ".", "e", "v", "i", "l", ".", "c", "o", "m">>,
   <<"o", "t", "h", "e", "r", ".", "o", "r", "g">>,
   <<"*", ".", "c", "o", "m">>}

\* The inputs of the block classification: answers of every status it
\* tests and of another, of several Content-Types, with a short or a long
\* body, and a Content-Length that is absent, right, wrong or not a number.
BlockContentTypes ==
  {<<>>, JPEG, HTML,
   <<"T", "E", "X", "T", "/", "H", "T", "M", "L">>,
   <<"t", "e", "x", "t", "/", "p", "l", "a", "i", "n">>,
   <<"a", "p", "p", "l", "i", "c", "a", "t", "i", "o", "n", "/", "j", "s", "o", "n">>,
   <<"a", "p", "p", "l", "i", "c", "a", "t", "i", "o", "n", "/", "p", "d", "f">>}
BlockResponses ==
  [status : {200, 401, 403, 429, 500}, contentType : BlockContentTypes,
   contentLength : {<<>>, Decimal(2000), Decimal(60000), <<"a", "b", "c">>},
   body : {[bytes |-> "h", size |-> 2000], [bytes |-> "H", size |-> 60000]}]

\* Client requests for the headers sent to the origin: the headers the
\* origin may see, headers it must not, the caller's address, and an
\* X-Forwarded-For of the client's own.
ClientHeaders ==
  {Spread(Spread(forwardable, secret), Spread(ip, xff)) :
     forwardable \in
       {<<>>,
        <<"u", "s", "e", "r", "-", "a", "g", "e", "n", "t">> :> <<"M", "o", "z", "i", "l", "l", "a">>,
        (<<"u", "s", "e", "r", "-", "a", "g", "e", "n", "t">> :> <<"M", "o", "z", "i", "l", "l", "a">>) @@ (<<"a", "c", "c", "e", "p", "t">> :> <<"i", "m", "a", "g", "e", "/", "w", "e", "b", "p">>)
          @@ (<<"a", "c", "c", "e", "p", "t", "-", "l", "a", "n", "g", "u", "a", "g", "e">> :> <<"e", "n">>) @@ (<<"r", "e", "f", "e", "r", "e", "r">> :> <<"h", "t", "t", "p", "s", ":", "/", "/", "a", ".", "c", "o", "/">>),
        (<<"a", "c", "c", "e", "p", "t">> :> <<"i", "m", "a", "g", "e", "/", "w", "e", "b", "p">>) @@ (<<"r", "e", "f", "e", "r", "e", "r">> :> <<"h", "t", "t", "p", "s", ":", "/", "/", "a", ".", "c", "o", "/">>)},
     secret \in
       {<<>>,
        (<<"a", "u", "t", "h", "o", "r", "i", "z", "a", "t", "i", "o", "n">> :> <<"B", "e", "a", "r", "e", "r", " ", "t">>) @@ (<<"c", "o", "o", "k", "i", "e">> :> <<"s", "=", "1">>)
          @@ (<<"h", "o", "s", "t">> :> <<"c", "d", "n">>) @@ (<<"c", "o", "n", "n", "e", "c", "t", "i", "o", "n">> :> <<"c", "l", "o", "s", "e">>)
          @@ (<<"p", "r", "o", "x", "y", "-", "a", "u", "t", "h", "o", "r", "i", "z", "a", "t", "i", "o", "n">> :> <<"B", "a", "s", "i", "c", " ", "p">>) @@ (<<"x", "-", "a", "p", "i", "-", "k", "e", "y">> :> <<"k">>),
        <<"c", "o", "o", "k", "i", "e">> :> <<"s", "=", "1">>},
     ip \in {<<>>, <<"c", "f", "-", "c", "o", "n", "n", "e", "c", "t", "i", "n", "g", "-", "i", "p">> :> <<"1", ".", "2", ".", "3", ".", "4">>},
     xff \in {<<>>, <<"x", "-", "f", "o", "r", "w", "a", "r", "d", "e", "d", "-", "f", "o", "r">> :> <<"9", ".", "9", ".", "9", ".", "9">>}}
ClientRequests == {<<>>} \cup {<<[headers |-> headers]>> : headers \in ClientHeaders}
UserAgents == {<<>>, <<"B", "o", "t", "/", "2">>}
ForwardFlags == {<<>>, <<"t", "r", "u", "e">>, <<"f", "a", "l", "s", "e">>, <<"1">>}

\* Two invocations at a time, GETs of one key, the origin answering each
\* with one of two images.
RaceSlots == {1, 2}
RaceRequest ==
  [method |-> "GET", pathname |-> <<"/">> \o ACo \o <<"/", "x">>,
   force |-> <<>>, view |-> <<>>, ifNoneMatch |-> <<>>]
RaceResponses ==
  {[status |-> 200, contentType |-> JPEG, contentLength |-> <<>>,
    body |-> [bytes |-> "p1", size |-> 1000]],
   [status |-> 200, contentType |-> PNG_UPPER, contentLength |-> <<>>,
    body |-> [bytes |-> "p2", size |-> 2000]]}

\* ------------------------------------------------------------- utils
\* parseFileSize: the units it knows, their multipliers, and the number of
\* bytes; a string it cannot match throws.
Units == {"B", "KB", "MB", "GB", "TB"}
Multiplier(unit) ==
  CASE unit = "B" -> 1
    [] unit = "KB" -> 1024
    [] unit = "MB" -> 1024 * 1024
    [] unit = "GB" -> 1024 * 1024 * 1024
    [] unit = "TB" -> 1024 * 1024 * 1024 * 1024
ParseFileSizeThrows(sizeStr) == sizeStr[2] \notin Units
parseFileSize(sizeStr) == sizeStr[1] * Multiplier(sizeStr[2])

\* env.MAX_FILE_SIZE || '50MB'
MaxFileSize == IF env.MAX_FILE_SIZE = <<>> THEN <<50, "MB">> ELSE env.MAX_FILE_SIZE

\* A response: status, Content-Type, ETag and X-ImgPro-Status headers (<<>>
\* when absent), and the body.
NoBody == [kind |-> "none"]

\* errorResponse(message, status)
errorResponse(message, status) ==
  [status |-> status, contentType |-> <<"application/json">>, etag |-> <<>>,
   xStatus |-> <<>>, body |-> [kind |-> "json", error |-> message, status |-> status]]

\* ------------------------------------------------------------- cache
\* The Cache-Control value of every object and of every image response.
CACHE_CONTROL == "public, max-age=31536000, immutable"

\* Mutant: the object is stored under the domain alone.
storeInCacheUnderDomain(cacheKey, imageData, contentType, sourceUrl, domain, now) ==
  [k \in DOMAIN r2 \cup {domain} |->
     IF k = domain
     THEN [body |-> imageData, size |-> imageData.size, etag |-> Etag(imageData),
           httpMetadata |-> [contentType |-> contentType,
                             cacheControl |-> CACHE_CONTROL],
           customMetadata |-> [sourceUrl |-> sourceUrl.href, domain |-> domain,
                               cachedAt |-> now]]
     ELSE r2[k]]

\* Mutant: an object that exists keeps its metadata and gets the new body.
storeInCacheKeepsMetadata(cacheKey, imageData, contentType, sourceUrl, domain, now) ==
  [k \in DOMAIN r2 \cup {cacheKey} |->
     IF k # cacheKey THEN r2[k]
     ELSE IF k \in DOMAIN r2
     THEN [r2[k] EXCEPT !.body = imageData, !.size = imageData.size,
                        !.etag = Etag(imageData)]
     ELSE [body |-> imageData, size |-> imageData.size, etag |-> Etag(imageData),
           httpMetadata |-> [contentType |-> contentType,
                             cacheControl |-> CACHE_CONTROL],
           customMetadata |-> [sourceUrl |-> sourceUrl.href, domain |-> domain,
                               cachedAt |-> now]]]

\* env.R2.put(cacheKey, imageData, {httpMetadata, customMetadata}), with
\* now for new Date().toISOString().
storeInCache(cacheKey, imageData, contentType, sourceUrl, domain, now) ==
  [k \in DOMAIN r2 \cup {cacheKey} |->
     IF k = cacheKey
     THEN [body |-> imageData, size |-> imageData.size, etag |-> Etag(imageData),
           httpMetadata |-> [contentType |-> contentType,
                             cacheControl |-> CACHE_CONTROL],
           customMetadata |-> [sourceUrl |-> sourceUrl.href, domain |-> domain,
                               cachedAt |-> now]]
     ELSE r2[k]]

\* Mutant: every object of the bucket is deleted.
deleteFromCacheAll(cacheKey) == [k \in {} |-> r2[k]]

\* env.R2.delete(cacheKey)
deleteFromCache(cacheKey) == [k \in DOMAIN r2 \ {cacheKey} |-> r2[k]]

\* getFromCache, getCacheHead: <<>> for null, else <<object>>.
getFromCache(cacheKey) == IF cacheKey \in DOMAIN r2 THEN <<r2[cacheKey]>> ELSE <<>>

\* Mutant: HEAD reports no X-ImgPro-Cached-At.
handleHeadRequestNoCachedAt(cached) ==
  IF cached # <<>>
  THEN [status |-> 200, contentType |-> cached[1].httpMetadata.contentType,
        etag |-> <<cached[1].etag>>, xStatus |-> <<"cached">>, body |-> NoBody,
        contentLength |-> Decimal(cached[1].size), cacheControl |-> CACHE_CONTROL,
        cachedAt |-> 0]
  ELSE [status |-> 404, contentType |-> <<>>, etag |-> <<>>, xStatus |-> <<>>,
        body |-> NoBody]

\* handleHeadRequest, after getCacheHead returned cached.
handleHeadRequest(cached) ==
  IF cached # <<>>
  THEN [status |-> 200, contentType |-> cached[1].httpMetadata.contentType,
        etag |-> <<cached[1].etag>>, xStatus |-> <<"cached">>, body |-> NoBody,
        contentLength |-> Decimal(cached[1].size), cacheControl |-> CACHE_CONTROL,
        cachedAt |-> cached[1].customMetadata.cachedAt]
  ELSE [status |-> 404, contentType |-> <<>>, etag |-> <<>>, xStatus |-> <<>>,
        body |-> NoBody]

\* Mutant: any If-None-Match is answered 304.
handleConditionalRequestAnyTag(request, etag) ==
  IF request.ifNoneMatch # <<>>
  THEN <<[status |-> 304, contentType |-> <<>>, etag |-> <<etag>>,
          xStatus |-> <<>>, body |-> NoBody, cacheControl |-> CACHE_CONTROL]>>
  ELSE <<>>

\* handleConditionalRequest: <<>> for null, else <<the 304 response>>.
handleConditionalRequest(request, etag) ==
  IF request.ifNoneMatch # <<>> /\ request.ifNoneMatch[1] = etag
  THEN <<[status |-> 304, contentType |-> <<>>, etag |-> <<etag>>,
          xStatus |-> <<>>, body |-> NoBody, cacheControl |-> CACHE_CONTROL]>>
  ELSE <<>>

\* ------------------------------------------------------------ origin
\* fetchImageData: the check of the Content-Length header, which rejects
\* without reading the body, and of the bytes read (and a mutant of the
\* latter, which refuses a body of exactly maxSize).
DeclaredTooLarge(response, maxSize) ==
  LET size == ParseInt(response.contentLength) IN
  response.contentLength # <<>> /\ size # <<>> /\ size[1] > maxSize
ActualTooLargeAtLimit(response, maxSize) == response.body.size >= maxSize
ActualTooLarge(response, maxSize) == response.body.size > maxSize
FileTooLarge(size, maxSize) ==
  [text |-> "File too large: ", size |-> size, max |-> maxSize]

\* detectBlockedResponse(response, 'image'): the classification, which
\* fetchImageFromOrigin() returns with the response.
detectBlockedResponse(response) ==
  LET contentType == ToLowerCase(response.contentType)
      contentLength == response.contentLength
  IN
  IF response.status = 403 \/ response.status = 401
  THEN [blocked |-> TRUE, reason |-> <<"http_", response.status>>]
  ELSE IF response.status = 429
  THEN [blocked |-> TRUE, reason |-> <<"rate_limited">>]
  ELSE IF Includes(contentType, <<"t", "e", "x", "t", "/", "h", "t", "m", "l">>)
  THEN IF /\ contentLength # <<>>
          /\ ParseInt(contentLength) # <<>>
          /\ ParseInt(contentLength)[1] < 50000
       THEN [blocked |-> TRUE, reason |-> <<"html_challenge_page">>]
       ELSE [blocked |-> TRUE, reason |-> <<"html_instead_of_image">>]
  ELSE IF StartsWith(contentType, <<"t", "e", "x", "t", "/">>)
  THEN [blocked |-> TRUE, reason |-> <<"text_instead_of_image">>]
  ELSE IF Includes(contentType, <<"a", "p", "p", "l", "i", "c", "a", "t", "i", "o", "n", "/", "j", "s", "o", "n">>)
  THEN [blocked |-> TRUE, reason |-> <<"json_instead_of_image">>]
  ELSE IF contentType # <<>> /\ ~StartsWith(contentType, <<"i", "m", "a", "g", "e", "/">>)
  THEN [blocked |-> TRUE, reason |-> <<"non_image_content_type">>]
  ELSE [blocked |-> FALSE, reason |-> <<>>]

\* validateUrlForFetch: a URL, given by its scheme and its host, is refused
\* unless it is http(s) and its host is neither localhost nor a loopback,
\* link-local or private IPv4 address.
IsDisallowedHost(host) ==
  LET labels == Split(host, ".")
      octet(i) == DecimalValue(labels[i])
  IN
  \/ host = <<"l", "o", "c", "a", "l", "h", "o", "s", "t">>
  \/ /\ Len(labels) = 4
     /\ \A i \in 1..4 : IsOctet(labels[i])
     /\ \/ octet(1) \in {0, 10, 127}
        \/ octet(1) = 169 /\ octet(2) = 254
        \/ octet(1) = 172 /\ octet(2) \in 16..31
        \/ octet(1) = 192 /\ octet(2) = 168

validateUrlForFetch(url) ==
  url.scheme \in {"http", "https"} /\ ~IsDisallowedHost(url.host)

\* parsed.sourceUrl as fetchFromOrigin() receives it.
SourceUrl(parsed) == [scheme |-> "https", host |-> parsed.sourceUrl.host]

\* timeout || parseInt(env.FETCH_TIMEOUT || '30000', 10), called without
\* timeout: <<>> for NaN.
FetchTimeout ==
  ParseInt(IF env.FETCH_TIMEOUT = <<>> THEN Decimal(30000) ELSE env.FETCH_TIMEOUT)

FALLBACK_HEADERS ==
  (<<"U", "s", "e", "r", "-", "A", "g", "e", "n", "t">> :> <<"I", "m", "g", "P", "r", "o", "/", "1", ".", "0">>) @@ (<<"A", "c", "c", "e", "p", "t">> :> <<"i", "m", "a", "g", "e", "/", "*">>)
FORWARDED_HEADERS ==
  <<<<"U", "s", "e", "r", "-", "A", "g", "e", "n", "t">>, <<"A", "c", "c", "e", "p", "t">>, <<"A", "c", "c", "e", "p", "t", "-", "L", "a", "n", "g", "u", "a", "g", "e">>, <<"R", "e", "f", "e", "r", "e", "r">>>>
BLOCKED_HEADERS ==
  {<<"a", "u", "t", "h", "o", "r", "i", "z", "a", "t", "i", "o", "n">>, <<"c", "o", "o", "k", "i", "e">>, <<"p", "r", "o", "x", "y", "-", "a", "u", "t", "h", "o", "r", "i", "z", "a", "t", "i", "o", "n">>, <<"x", "-", "a", "p", "i", "-", "k", "e", "y">>,
   <<"x", "-", "a", "u", "t", "h", "-", "t", "o", "k", "e", "n">>, <<"h", "o", "s", "t">>, <<"c", "o", "n", "n", "e", "c", "t", "i", "o", "n">>, <<"u", "p", "g", "r", "a", "d", "e">>, <<"t", "e">>,
   <<"t", "r", "a", "n", "s", "f", "e", "r", "-", "e", "n", "c", "o", "d", "i", "n", "g">>}

\* A client request (<<request>>) or none (<<>>): every header the client
\* sent, under its own name.
getForwardedHeadersAll(clientRequest) ==
  IF clientRequest = <<>> THEN <<>>
  ELSE LET sent == clientRequest[1].headers IN
       [k \in {n \in DOMAIN sent : sent[n] # <<>>} |-> sent[k]]

getForwardedHeaders(clientRequest) ==
  IF clientRequest = <<>> THEN <<>>
  ELSE LET present == {header \in Range(FORWARDED_HEADERS) :
                         HeadersGet(clientRequest[1].headers, header) # <<>>} IN
       [header \in present |-> HeadersGet(clientRequest[1].headers, header)]

\* The headers fetchFromOrigin(url, environment, clientRequest) sends.
RequestHeaders(environment, clientRequest) ==
  LET headers == Spread(FALLBACK_HEADERS, getForwardedHeaders(clientRequest))
      overridden ==
        IF environment.ORIGIN_USER_AGENT # <<>>
        THEN Spread(headers, <<"U", "s", "e", "r", "-", "A", "g", "e", "n", "t">> :> environment.ORIGIN_USER_AGENT)
        ELSE headers
      clientIp ==
        IF clientRequest = <<>> THEN <<>>
        ELSE HeadersGet(clientRequest[1].headers, <<"c", "f", "-", "c", "o", "n", "n", "e", "c", "t", "i", "n", "g", "-", "i", "p">>)
  IN IF /\ environment.FORWARD_CLIENT_IP = <<"t", "r", "u", "e">>
        /\ clientRequest # <<>>
        /\ clientIp # <<>>
     THEN Spread(overridden, <<"X", "-", "F", "o", "r", "w", "a", "r", "d", "e", "d", "-", "F", "o", "r">> :> clientIp)
     ELSE overridden

\* fetchFromOrigin(url, env, clientRequest) up to its fetch(): the headers
\* of the request it sends.
FetchWithHeaders(clientRequest) ==
  /\ out' = [returned |-> TRUE, client |-> clientRequest,
             headers |-> RequestHeaders(env, clientRequest)]
  /\ UNCHANGED <<env, r2, handlers, fetching>>
  /\ UNCHANGED trackerVars

\* fetchImageFromOrigin(), once fetchFromOrigin() has returned response:
\* the FetchResult it returns.
FetchImageFromOrigin(response) ==
  /\ out' = [returned |-> TRUE, origin |-> response,
             result |-> [response |-> response,
                         blocked |-> detectBlockedResponse(response).blocked,
                         blockReason |-> detectBlockedResponse(response).reason]]
  /\ UNCHANGED <<env, r2, handlers, fetching>>
  /\ UNCHANGED trackerVars

\* ------------------------------------------------------------ fetch()
\* parseUrl(new URL(request.url)) of every request, computed once.
Urls ==
  {[pathname |-> request.pathname, force |-> request.force, view |-> request.view] :
     request \in Requests \cup FetchRequests \cup AllowRequests}
ParsedUrls == [url \in Urls |-> parseUrl(url)]
Parsed(request) ==
  ParsedUrls[[pathname |-> request.pathname, force |-> request.force,
              view |-> request.view]]

\* isImageContentType of every Content-Type an origin sends, computed once.
ImageContentTypes ==
  {response.contentType : response \in
     {r \in OriginResponses : isImageContentType(r.contentType)}}

\* fetchFromOrigin() has not been called: no timer, no request sent.
NotFetching ==
  [timer |-> FALSE, hops |-> <<>>, custom |-> FALSE, allowed |-> <<>>]

Idle ==
  [pc |-> "idle", request |-> <<>>, response |-> <<>>, calls |-> <<>>,
   before |-> <<>>]
NoOut == [returned |-> FALSE]

\* The bucket as the invocation h found it (history): at its entry the
\* bucket itself.
Before(h) == IF handlers[h].pc = "idle" THEN <<r2>> ELSE handlers[h].before

\* The invocation h returns response: its slot is free again.
Return(h, request, response, calls) ==
  /\ handlers' = [handlers EXCEPT ![h] = Idle]
  /\ out' = [returned |-> TRUE, slot |-> h, request |-> request,
             response |-> response, calls |-> calls, before |-> Before(h)[1]]

\* The same, after the origin has answered: the history keeps its answer,
\* and the bucket as this last step found it.
ReturnFetched(h, request, response, calls, origin) ==
  /\ handlers' = [handlers EXCEPT ![h] = Idle]
  /\ out' = [returned |-> TRUE, slot |-> h, request |-> request,
             response |-> response, calls |-> calls, before |-> Before(h)[1],
             origin |-> origin, found |-> r2]

\* The invocation h awaits the next call, with the origin's response in hand
\* (<<>> when it has none).
Await(h, request, response, calls, at) ==
  /\ handlers' = [handlers EXCEPT ![h] = [pc |-> at, request |-> request,
                                          response |-> response, calls |-> calls,
                                          before |-> Before(h)]]
  /\ out' = NoOut

HealthPaths == {<<"/", "h", "e", "a", "l", "t", "h">>, <<"/", "p", "i", "n", "g">>}

\* createHtmlViewer: the debug page that shows the image.
createHtmlViewer(status) ==
  [status |-> 200, contentType |-> <<"text/html">>, etag |-> <<>>,
   xStatus |-> <<>>, body |-> [kind |-> "viewer", status |-> status]]

\* Mutant: the origin is not validated.
ReceiveUnvalidated(h, request) ==
  LET parsed == Parsed(request)
      allowedOrigins ==
        IF env.ALLOWED_ORIGINS = <<>> THEN <<"*">> ELSE env.ALLOWED_ORIGINS
  IN
  /\ handlers[h].pc = "idle"
  /\ IF request.method = "OPTIONS"
     THEN Return(h, request, [status |-> 204, contentType |-> <<>>, etag |-> <<>>,
                              xStatus |-> <<>>, body |-> NoBody], <<>>)
     ELSE IF request.pathname \in HealthPaths
     THEN Return(h, request, [status |-> 200, contentType |-> <<"application/json">>,
                              etag |-> <<>>, xStatus |-> <<>>,
                              body |-> [kind |-> "json", status |-> "healthy"]], <<>>)
     ELSE IF ~parsed.ok
     THEN Return(h, request, errorResponse(parsed.error, 500), <<>>)
     ELSE IF request.method = "DELETE"
     THEN Await(h, request, <<>>, <<>>, "DELETE: getFromCache")
     ELSE IF request.method = "HEAD"
     THEN Await(h, request, <<>>, <<>>, "HEAD: getCacheHead")
     ELSE IF request.method # "GET"
     THEN Return(h, request, errorResponse([text |-> "Method not allowed"], 405), <<>>)
     ELSE IF ~parsed.forceReprocess
     THEN Await(h, request, <<>>, <<>>, "GET: getFromCache")
     ELSE Await(h, request, <<>>, <<>>, "fetchFromOrigin")
  /\ UNCHANGED <<env, r2>>
  /\ UNCHANGED <<trackerVars, fetching>>

\* fetch() from its entry to its first await, or to its return.
\* Mutant: the origin check comes before the dispatch on the method.
ReceiveOriginFirst(h, request) ==
  LET parsed == Parsed(request)
      allowedOrigins ==
        IF env.ALLOWED_ORIGINS = <<>> THEN <<"*">> ELSE env.ALLOWED_ORIGINS
  IN
  /\ handlers[h].pc = "idle"
  /\ IF request.method = "OPTIONS"
     THEN Return(h, request, [status |-> 204, contentType |-> <<>>, etag |-> <<>>,
                              xStatus |-> <<>>, body |-> NoBody], <<>>)
     ELSE IF request.pathname \in HealthPaths
     THEN Return(h, request, [status |-> 200, contentType |-> <<"application/json">>,
                              etag |-> <<>>, xStatus |-> <<>>,
                              body |-> [kind |-> "json", status |-> "healthy"]], <<>>)
     ELSE IF ~parsed.ok
     THEN Return(h, request, errorResponse(parsed.error, 500), <<>>)
     ELSE IF ~isAllowedOrigin(parsed.sourceUrl, allowedOrigins)
     THEN Return(h, request, errorResponse([text |-> "Origin not allowed"], 403), <<>>)
     ELSE IF request.method = "DELETE"
     THEN Await(h, request, <<>>, <<>>, "DELETE: getFromCache")
     ELSE IF request.method = "HEAD"
     THEN Await(h, request, <<>>, <<>>, "HEAD: getCacheHead")
     ELSE IF request.method # "GET"
     THEN Return(h, request, errorResponse([text |-> "Method not allowed"], 405), <<>>)
     ELSE IF ~parsed.forceReprocess
     THEN Await(h, request, <<>>, <<>>, "GET: getFromCache")
     ELSE Await(h, request, <<>>, <<>>, "fetchFromOrigin")
  /\ UNCHANGED <<env, r2>>
  /\ UNCHANGED <<trackerVars, fetching>>

Receive(h, request) ==
  LET parsed == Parsed(request)
      allowedOrigins ==
        IF env.ALLOWED_ORIGINS = <<>> THEN <<"*">> ELSE env.ALLOWED_ORIGINS
  IN
  /\ handlers[h].pc = "idle"
  /\ IF request.method = "OPTIONS"
     THEN Return(h, request, [status |-> 204, contentType |-> <<>>, etag |-> <<>>,
                              xStatus |-> <<>>, body |-> NoBody], <<>>)
     ELSE IF request.pathname \in HealthPaths
     THEN Return(h, request, [status |-> 200, contentType |-> <<"application/json">>,
                              etag |-> <<>>, xStatus |-> <<>>,
                              body |-> [kind |-> "json", status |-> "healthy"]], <<>>)
     ELSE IF ~parsed.ok
     THEN Return(h, request, errorResponse(parsed.error, 500), <<>>)
     ELSE IF request.method = "DELETE"
     THEN Await(h, request, <<>>, <<>>, "DELETE: getFromCache")
     ELSE IF request.method = "HEAD"
     THEN Await(h, request, <<>>, <<>>, "HEAD: getCacheHead")
     ELSE IF request.method # "GET"
     THEN Return(h, request, errorResponse([text |-> "Method not allowed"], 405), <<>>)
     ELSE IF ~isAllowedOrigin(parsed.sourceUrl, allowedOrigins)
     THEN Return(h, request, errorResponse([text |-> "Origin not allowed"], 403), <<>>)
     ELSE IF ~parsed.forceReprocess
     THEN Await(h, request, <<>>, <<>>, "GET: getFromCache")
     ELSE Await(h, request, <<>>, <<>>, "fetchFromOrigin")
  /\ UNCHANGED <<env, r2>>
  /\ UNCHANGED <<trackerVars, fetching>>

\* An awaited call that rejects: the catch of fetch() answers 500.
Rejected(h, call) ==
  IF handlers[h].response = <<>>
  THEN Return(h, handlers[h].request, errorResponse([text |-> call], 500),
              Append(handlers[h].calls, call))
  ELSE ReturnFetched(h, handlers[h].request, errorResponse([text |-> call], 500),
                     Append(handlers[h].calls, call), handlers[h].response[1])

\* Mutant: the hit is served without its ETag header.
ServeCachedWithoutETag(cached) ==
  [status |-> 200, contentType |-> cached.httpMetadata.contentType,
   etag |-> <<>>, xStatus |-> <<"hit">>,
   body |-> [kind |-> "bytes", bytes |-> cached.body.bytes, size |-> cached.size],
   contentLength |-> Decimal(cached.size), cacheControl |-> CACHE_CONTROL,
   cachedAt |-> cached.customMetadata.cachedAt]

\* The image response of a cache hit.
ServeCached(cached) ==
  [status |-> 200, contentType |-> cached.httpMetadata.contentType,
   etag |-> <<cached.etag>>, xStatus |-> <<"hit">>,
   body |-> [kind |-> "bytes", bytes |-> cached.body.bytes, size |-> cached.size],
   contentLength |-> Decimal(cached.size), cacheControl |-> CACHE_CONTROL,
   cachedAt |-> cached.customMetadata.cachedAt]

\* The image response after the fetch and the store.
ServeFetched(imageData, contentType) ==
  [status |-> 200, contentType |-> contentType, etag |-> <<>>,
   xStatus |-> <<"miss">>,
   body |-> [kind |-> "bytes", bytes |-> imageData.bytes, size |-> imageData.size],
   contentLength |-> Decimal(imageData.size), cacheControl |-> CACHE_CONTROL]

\* await getFromCache() returns, in DELETE and in GET, and fetch() runs to
\* its next await or to its return.
CacheGet(h, ok) ==
  LET request == handlers[h].request
      parsed == Parsed(request)
      cached == getFromCache(parsed.cacheKey)
      calls == Append(handlers[h].calls, "R2.get")
      conditionalResponse ==
        handleConditionalRequest(request, cached[1].etag)
  IN
  /\ handlers[h].pc \in {"DELETE: getFromCache", "GET: getFromCache"}
  /\ IF ~ok THEN Rejected(h, "R2.get rejected")
     ELSE IF handlers[h].pc = "DELETE: getFromCache"
     THEN IF cached = <<>>
          THEN Return(h, request,
                      errorResponse([text |-> "Image not found in cache"], 404), calls)
          ELSE Await(h, request, <<>>, calls, "deleteFromCache")
     ELSE IF cached = <<>>
     THEN Await(h, request, <<>>, calls, "fetchFromOrigin")
     ELSE IF conditionalResponse # <<>>
     THEN Return(h, request, conditionalResponse[1], calls)
     ELSE IF parsed.viewImage
     THEN Return(h, request, createHtmlViewer("cached"), calls)
     ELSE Return(h, request, ServeCached(cached[1]), calls)
  /\ UNCHANGED <<env, r2>>
  /\ UNCHANGED <<trackerVars, fetching>>

\* await deleteFromCache() returns, and fetch() returns.
Delete(h, ok) ==
  LET request == handlers[h].request
      parsed == Parsed(request)
  IN
  /\ handlers[h].pc = "deleteFromCache"
  /\ IF ~ok THEN Rejected(h, "R2.delete rejected") /\ r2' = r2
     ELSE /\ r2' = deleteFromCache(parsed.cacheKey)
          /\ Return(h, request,
                    [status |-> 200, contentType |-> <<"application/json">>,
                     etag |-> <<>>, xStatus |-> <<>>,
                     body |-> [kind |-> "json", success |-> TRUE,
                               cacheKey |-> parsed.cacheKey]],
                    Append(handlers[h].calls, "R2.delete"))
  /\ UNCHANGED env
  /\ UNCHANGED <<trackerVars, fetching>>

\* await handleHeadRequest() returns, and fetch() returns.
HeadRequest(h, ok) ==
  LET request == handlers[h].request
      parsed == Parsed(request)
  IN
  /\ handlers[h].pc = "HEAD: getCacheHead"
  /\ IF ~ok THEN Rejected(h, "R2.head rejected")
     ELSE Return(h, request, handleHeadRequest(getFromCache(parsed.cacheKey)),
                 Append(handlers[h].calls, "R2.head"))
  /\ UNCHANGED <<env, r2>>
  /\ UNCHANGED <<trackerVars, fetching>>

\* Mutant: the body is stored as it is read, before its size is checked.
OriginFetchStoresUnchecked(h, ok, response) ==
  LET request == handlers[h].request
      parsed == Parsed(request)
      calls == Append(handlers[h].calls, "fetch")
      maxSize == parseFileSize(MaxFileSize)
  IN
  /\ handlers[h].pc = "fetchFromOrigin"
  /\ IF ~ok THEN Rejected(h, "fetch rejected")
     ELSE IF response.status \notin 200..299
     THEN IF response.status = 404
          THEN ReturnFetched(h, request,
                             errorResponse([text |-> "Image not found: ",
                                            sourceUrl |-> parsed.sourceUrl.href],
                                           404),
                             calls, response)
          ELSE ReturnFetched(h, request,
                             errorResponse([text |-> "Origin error ",
                                            status |-> response.status], 503),
                             calls, response)
     ELSE IF response.contentType \notin ImageContentTypes
     THEN ReturnFetched(h, request,
                        errorResponse([text |-> "Not an image: ",
                                       contentType |-> response.contentType], 415),
                        calls, response)
     ELSE IF ParseFileSizeThrows(MaxFileSize)
     THEN ReturnFetched(h, request,
                        errorResponse([text |-> "Invalid file size format: ",
                                       sizeStr |-> MaxFileSize], 500),
                        calls, response)
     ELSE IF DeclaredTooLarge(response, maxSize)
     THEN ReturnFetched(h, request,
                 errorResponse(FileTooLarge(ParseInt(response.contentLength)[1], maxSize),
                               413),
                 calls, response)
     ELSE IF ActualTooLarge(response, maxSize)
     THEN ReturnFetched(h, request,
                 errorResponse(FileTooLarge(response.body.size, maxSize), 413),
                 Append(calls, "arrayBuffer"), response)
     ELSE Await(h, request, <<response>>, Append(calls, "arrayBuffer"),
                "storeInCache")
  /\ r2' = IF ok /\ response.status \in 200..299
                /\ response.contentType \in ImageContentTypes
                /\ ~ParseFileSizeThrows(MaxFileSize)
                /\ ~DeclaredTooLarge(response, maxSize)
             THEN storeInCache(parsed.cacheKey, response.body, response.contentType,
                               parsed.sourceUrl, parsed.domain, 1)
             ELSE r2
  /\ UNCHANGED env
  /\ UNCHANGED <<trackerVars, fetching>>

\* Mutant: the size is checked before the content type.
OriginFetchSizeFirst(h, ok, response) ==
  LET request == handlers[h].request
      parsed == Parsed(request)
      calls == Append(handlers[h].calls, "fetch")
      maxSize == parseFileSize(MaxFileSize)
  IN
  /\ handlers[h].pc = "fetchFromOrigin"
  /\ IF ~ok THEN Rejected(h, "fetch rejected")
     ELSE IF response.status \notin 200..299
     THEN IF response.status = 404
          THEN ReturnFetched(h, request,
                             errorResponse([text |-> "Image not found: ",
                                            sourceUrl |-> parsed.sourceUrl.href],
                                           404),
                             calls, response)
          ELSE ReturnFetched(h, request,
                             errorResponse([text |-> "Origin error ",
                                            status |-> response.status], 503),
                             calls, response)
     ELSE IF ParseFileSizeThrows(MaxFileSize)
     THEN ReturnFetched(h, request,
                        errorResponse([text |-> "Invalid file size format: ",
                                       sizeStr |-> MaxFileSize], 500),
                        calls, response)
     ELSE IF DeclaredTooLarge(response, maxSize)
     THEN ReturnFetched(h, request,
                 errorResponse(FileTooLarge(ParseInt(response.contentLength)[1], maxSize),
                               413),
                 calls, response)
     ELSE IF ActualTooLarge(response, maxSize)
     THEN ReturnFetched(h, request,
                 errorResponse(FileTooLarge(response.body.size, maxSize), 413),
                 Append(calls, "arrayBuffer"), response)
     ELSE IF response.contentType \notin ImageContentTypes
     THEN ReturnFetched(h, request,
                        errorResponse([text |-> "Not an image: ",
                                       contentType |-> response.contentType], 415),
                        Append(calls, "arrayBuffer"), response)
     ELSE Await(h, request, <<response>>, Append(calls, "arrayBuffer"),
                "storeInCache")
  /\ UNCHANGED <<env, r2>>
  /\ UNCHANGED <<trackerVars, fetching>>

\* fetch() after fetchFromOrigin() has returned response: it validates the
\* status, the type and the size, and reads the body, up to the await of
\* storeInCache() or to a return.
ValidateFetched(h, calls, response) ==
  LET request == handlers[h].request
      parsed == Parsed(request)
      maxSize == parseFileSize(MaxFileSize)
  IN
  IF response.status \notin 200..299
  THEN IF response.status = 404
       THEN ReturnFetched(h, request,
                          errorResponse([text |-> "Image not found: ",
                                         sourceUrl |-> parsed.sourceUrl.href],
                                        404),
                          calls, response)
       ELSE ReturnFetched(h, request,
                          errorResponse([text |-> "Origin error ",
                                         status |-> response.status], 503),
                          calls, response)
  ELSE IF response.contentType \notin ImageContentTypes
  THEN ReturnFetched(h, request,
                     errorResponse([text |-> "Not an image: ",
                                    contentType |-> response.contentType], 415),
                     calls, response)
  ELSE IF ParseFileSizeThrows(MaxFileSize)
  THEN ReturnFetched(h, request,
                     errorResponse([text |-> "Invalid file size format: ",
                                    sizeStr |-> MaxFileSize], 500),
                     calls, response)
  ELSE IF DeclaredTooLarge(response, maxSize)
  THEN ReturnFetched(h, request,
              errorResponse(FileTooLarge(ParseInt(response.contentLength)[1], maxSize),
                            413),
              calls, response)
  ELSE IF ActualTooLarge(response, maxSize)
  THEN ReturnFetched(h, request,
              errorResponse(FileTooLarge(response.body.size, maxSize), 413),
              Append(calls, "arrayBuffer"), response)
  ELSE Await(h, request, <<response>>, Append(calls, "arrayBuffer"),
             "storeInCache")

\* await fetchFromOrigin() returns response, or rejects, as one step, and
\* fetch() runs on to its next await or to a return.
OriginFetch(h, ok, response) ==
  /\ handlers[h].pc = "fetchFromOrigin"
  /\ IF ~ok THEN Rejected(h, "fetch rejected")
     ELSE ValidateFetched(h, Append(handlers[h].calls, "fetch"), response)
  /\ UNCHANGED <<env, r2>>
  /\ UNCHANGED <<trackerVars, fetching>>

\* fetchFromOrigin() throws message and the catch of fetch() answers 500.
Thrown(h, message) ==
  Return(h, handlers[h].request, errorResponse(message, 500),
         Append(handlers[h].calls, "fetch rejected"))

\* fetchFromOrigin(url, env, undefined, undefined, validateRedirect) from its
\* entry to await fetch(): the URL is validated, the timer set and the
\* first request sent. custom: a validateRedirect was passed.
FetchFromOrigin(h, custom) ==
  LET url == SourceUrl(Parsed(handlers[h].request)) IN
  /\ handlers[h].pc = "fetchFromOrigin"
  /\ IF ~validateUrlForFetch(url)
     THEN /\ Thrown(h, [text |-> "Invalid URL: "])
          /\ fetching' = [fetching EXCEPT ![h] = [NotFetching EXCEPT !.custom = custom]]
     ELSE /\ Await(h, handlers[h].request, <<>>, handlers[h].calls, "fetch")
          /\ fetching' = [fetching EXCEPT ![h] =
                            [timer |-> TRUE, hops |-> <<url>>, custom |-> custom,
                             allowed |-> <<>>]]
  /\ UNCHANGED <<env, r2>>
  /\ UNCHANGED trackerVars

\* fetch(url, {redirect: 'follow'}) follows a redirect: the platform sends
\* the next request to the target the answer names.
Redirect(h, target) ==
  /\ handlers[h].pc = "fetch"
  /\ Len(fetching[h].hops) <= MaxHops
  /\ target \notin Range(fetching[h].hops)
  /\ fetching' = [fetching EXCEPT ![h].hops = Append(@, target)]
  /\ UNCHANGED <<env, r2, handlers, out>>
  /\ UNCHANGED trackerVars

\* Mutant: the final URL is not validated.
FetchResolvesUnvalidated(h, response, allowed) ==
  /\ handlers[h].pc = "fetch"
  /\ allowed
  /\ ValidateFetched(h, Append(handlers[h].calls, "fetch"), response)
  /\ fetching' = [fetching EXCEPT ![h].timer = FALSE]
  /\ UNCHANGED <<env, r2>>
  /\ UNCHANGED trackerVars

\* await fetch() resolves with the response of the last request: a final URL
\* other than url is validated, and handed to validateRedirect when there is
\* one, which answers allowed; the timer is cleared; and fetch() of the
\* worker runs on with the response, or to its catch.
FetchResolves(h, response, allowed) ==
  LET hops == fetching[h].hops
      finalUrl == hops[Len(hops)]
      redirected == finalUrl # hops[1]
      asked == redirected /\ validateUrlForFetch(finalUrl) /\ fetching[h].custom
  IN
  /\ handlers[h].pc = "fetch"
  /\ asked \/ allowed
  /\ IF redirected /\ ~validateUrlForFetch(finalUrl)
     THEN Thrown(h, [text |-> "Redirect to invalid URL blocked: "])
     ELSE IF asked /\ ~allowed
     THEN Thrown(h, [text |-> "Redirect to non-allowed origin blocked: ",
                     finalUrl |-> finalUrl])
     ELSE ValidateFetched(h, Append(handlers[h].calls, "fetch"), response)
  /\ fetching' = [fetching EXCEPT ![h].timer = FALSE,
                                  ![h].allowed = IF asked THEN <<allowed>> ELSE <<>>]
  /\ UNCHANGED <<env, r2>>
  /\ UNCHANGED trackerVars

\* Mutant: the timer is left set when the fetch is aborted.
FetchTimesOutTimerLeft(h) ==
  /\ handlers[h].pc = "fetch"
  /\ fetching[h].timer
  /\ Thrown(h, [text |-> "Request timeout after ", ms |-> FetchTimeout])
  /\ UNCHANGED <<env, r2, fetching>>
  /\ UNCHANGED trackerVars

\* The timer fires before fetch() has resolved: controller.abort() rejects
\* it with an AbortError, fetchFromOrigin() throws the timeout error and
\* clears the timer.
FetchTimesOut(h) ==
  /\ handlers[h].pc = "fetch"
  /\ fetching[h].timer
  /\ Thrown(h, [text |-> "Request timeout after ", ms |-> FetchTimeout])
  /\ fetching' = [fetching EXCEPT ![h].timer = FALSE]
  /\ UNCHANGED <<env, r2>>
  /\ UNCHANGED trackerVars

\* fetch() rejects for another reason (the network): the error is thrown
\* on, and the timer cleared.
FetchFails(h) ==
  /\ handlers[h].pc = "fetch"
  /\ Thrown(h, [text |-> "fetch failed"])
  /\ fetching' = [fetching EXCEPT ![h].timer = FALSE]
  /\ UNCHANGED <<env, r2>>
  /\ UNCHANGED trackerVars

\* await storeInCache() returns at now, or rejects, and fetch() returns.
Store(h, ok, now) ==
  LET request == handlers[h].request
      parsed == Parsed(request)
      response == handlers[h].response[1]
      calls == Append(handlers[h].calls, "R2.put")
  IN
  /\ handlers[h].pc = "storeInCache"
  /\ IF ~ok THEN Rejected(h, "R2.put rejected") /\ r2' = r2
     ELSE /\ r2' = storeInCache(parsed.cacheKey, response.body, response.contentType,
                                parsed.sourceUrl, parsed.domain, now)
          /\ IF parsed.viewImage
             THEN ReturnFetched(h, request, createHtmlViewer("fetched"), calls,
                                response)
             ELSE ReturnFetched(h, request,
                                ServeFetched(response.body, response.contentType),
                                calls, response)
  /\ UNCHANGED env
  /\ UNCHANGED <<trackerVars, fetching>>

\* The worker is deployed with another ALLOWED_ORIGINS (a var of
\* wrangler.toml), between invocations; the bucket is kept.
Configure(allowedOrigins) ==
  /\ \A h \in Slots : handlers[h].pc = "idle"
  /\ allowedOrigins # env.ALLOWED_ORIGINS
  /\ env' = [env EXCEPT !.ALLOWED_ORIGINS = allowedOrigins]
  /\ out' = NoOut
  /\ UNCHANGED <<r2, handlers>>
  /\ UNCHANGED <<trackerVars, fetching>>

\* ---------------------------------------------------------------- Init
Init ==
  /\ envBillingDb \in BOOLEAN
  /\ alive = FALSE
  /\ this = FieldDefaults
  /\ storage = StorageDeleteAll
  /\ alarm = <<>>
  /\ pc = "idle"
  /\ flush = NoFlush
  /\ d1 = [sites |-> [s \in SiteIds |-> [cache_hits |-> 0, cache_misses |-> 0]],
           usage_hourly |-> [s \in SiteIds \cup {0} |-> Zero3]]
  /\ faults = 0
  /\ recorded = Zero3
  /\ acked = Zero3
  /\ during = Zero3
  /\ owed = NothingOwed
  /\ zeroed = FALSE
  /\ last = NoReturn
  /\ env = [ALLOWED_ORIGINS |-> <<>>, MAX_FILE_SIZE |-> <<>>, FETCH_TIMEOUT |-> <<>>]
  /\ r2 = [k \in {} |-> 0]
  /\ handlers = [h \in Slots |-> Idle]
  /\ out = NoOut
  /\ fetching = [h \in Slots |-> NotFetching]

Next ==
  \/ Construct
  \/ Evict
  \/ Redeploy
  \/ Tick
  \/ \E metrics \in Metrics, putOk \in Outcomes : Fetch(metrics, putOk)
  \/ AlarmUnbound
  \/ \E armedFirst \in BOOLEAN, alarmOk \in Outcomes :
       AlarmIdle(armedFirst, alarmOk)
  \/ \E armedFirst \in BOOLEAN : AlarmSnapshot(armedFirst)
  \/ \E putOk, alarmOk \in BOOLEAN : AlarmFlushed(putOk, alarmOk)
  \/ \E putOk, alarmOk \in BOOLEAN : AlarmFailed(putOk, alarmOk)

Spec == Init /\ [][Next]_vars

\* A due alarm is delivered; the batch returns; time passes; and the batch
\* does not fail for ever.
AlarmRuns ==
  \/ AlarmUnbound
  \/ \E armedFirst \in BOOLEAN, alarmOk \in Outcomes :
       AlarmIdle(armedFirst, alarmOk)
  \/ \E armedFirst \in BOOLEAN : AlarmSnapshot(armedFirst)

BatchSucceeds == \E putOk, alarmOk \in BOOLEAN : AlarmFlushed(putOk, alarmOk)

BatchReturns ==
  \/ BatchSucceeds
  \/ \E putOk, alarmOk \in BOOLEAN : AlarmFailed(putOk, alarmOk)

LiveSpec ==
  /\ Spec
  /\ WF_vars(Tick)
  /\ WF_vars(AlarmRuns)
  /\ WF_vars(BatchReturns)
  /\ SF_vars(BatchSucceeds)

\* The worker alone: the tracker is not addressed by any of its steps.
CdnInit ==
  /\ envBillingDb = FALSE
  /\ alive = FALSE
  /\ this = FieldDefaults
  /\ storage = StorageDeleteAll
  /\ alarm = <<>>
  /\ pc = "idle"
  /\ flush = NoFlush
  /\ d1 = [sites |-> [s \in SiteIds |-> [cache_hits |-> 0, cache_misses |-> 0]],
           usage_hourly |-> [s \in SiteIds \cup {0} |-> Zero3]]
  /\ faults = 0
  /\ recorded = Zero3
  /\ acked = Zero3
  /\ during = Zero3
  /\ owed = NothingOwed
  /\ zeroed = FALSE
  /\ last = NoReturn
  /\ env \in [ALLOWED_ORIGINS : AllowedOrigins, MAX_FILE_SIZE : FileSizes,
              FETCH_TIMEOUT : {<<>>}]
  /\ r2 = [k \in {} |-> 0]
  /\ handlers = [h \in Slots |-> Idle]
  /\ out = NoOut
  /\ fetching = [h \in Slots |-> NotFetching]

CdnNext ==
  \/ \E h \in Slots, request \in Requests : Receive(h, request)
  \/ \E h \in Slots, ok \in BOOLEAN : CacheGet(h, ok)
  \/ \E h \in Slots, ok \in BOOLEAN : Delete(h, ok)
  \/ \E h \in Slots, ok \in BOOLEAN : HeadRequest(h, ok)
  \/ \E h \in Slots, ok \in BOOLEAN, response \in OriginResponses :
       OriginFetch(h, ok, response)
  \/ \E h \in Slots, ok \in BOOLEAN, now \in Times : Store(h, ok, now)
  \/ \E allowedOrigins \in AllowedOrigins : Configure(allowedOrigins)

CdnSpec == CdnInit /\ [][CdnNext]_vars

\* The worker on forced GETs of one key, with the origin's answers varied in
\* their Content-Length and in the length of their body.
SizeInit ==
  /\ envBillingDb = FALSE
  /\ alive = FALSE
  /\ this = FieldDefaults
  /\ storage = StorageDeleteAll
  /\ alarm = <<>>
  /\ pc = "idle"
  /\ flush = NoFlush
  /\ d1 = [sites |-> [s \in SiteIds |-> [cache_hits |-> 0, cache_misses |-> 0]],
           usage_hourly |-> [s \in SiteIds \cup {0} |-> Zero3]]
  /\ faults = 0
  /\ recorded = Zero3
  /\ acked = Zero3
  /\ during = Zero3
  /\ owed = NothingOwed
  /\ zeroed = FALSE
  /\ last = NoReturn
  /\ env \in [ALLOWED_ORIGINS : {<<>>}, MAX_FILE_SIZE : SizedFileSizes,
              FETCH_TIMEOUT : {<<>>}]
  /\ r2 = [k \in {} |-> 0]
  /\ handlers = [h \in Slots |-> Idle]
  /\ out = NoOut
  /\ fetching = [h \in Slots |-> NotFetching]

SizeNext ==
  \/ \E h \in Slots : Receive(h, SizedRequest)
  \/ \E h \in Slots, response \in SizedResponses : OriginFetch(h, TRUE, response)
  \/ \E h \in Slots, ok \in BOOLEAN, now \in Times : Store(h, ok, now)

SizeSpec == SizeInit /\ [][SizeNext]_vars

\* The worker on forced GETs, with fetchFromOrigin() step by step.
OriginInit ==
  /\ envBillingDb = FALSE
  /\ alive = FALSE
  /\ this = FieldDefaults
  /\ storage = StorageDeleteAll
  /\ alarm = <<>>
  /\ pc = "idle"
  /\ flush = NoFlush
  /\ d1 = [sites |-> [s \in SiteIds |-> [cache_hits |-> 0, cache_misses |-> 0]],
           usage_hourly |-> [s \in SiteIds \cup {0} |-> Zero3]]
  /\ faults = 0
  /\ recorded = Zero3
  /\ acked = Zero3
  /\ during = Zero3
  /\ owed = NothingOwed
  /\ zeroed = FALSE
  /\ last = NoReturn
  /\ env \in [ALLOWED_ORIGINS : {<<>>}, MAX_FILE_SIZE : {<<>>},
              FETCH_TIMEOUT : FetchTimeouts]
  /\ r2 = [k \in {} |-> 0]
  /\ handlers = [h \in Slots |-> Idle]
  /\ out = NoOut
  /\ fetching = [h \in Slots |-> NotFetching]

OriginNext ==
  \/ \E h \in Slots, request \in FetchRequests : Receive(h, request)
  \/ \E h \in Slots, custom \in BOOLEAN : FetchFromOrigin(h, custom)
  \/ \E h \in Slots, target \in RedirectTargets : Redirect(h, target)
  \/ \E h \in Slots, response \in FetchedResponses, allowed \in BOOLEAN :
       FetchResolves(h, response, allowed)
  \/ \E h \in Slots : FetchTimesOut(h)
  \/ \E h \in Slots : FetchFails(h)
  \/ \E h \in Slots, ok \in BOOLEAN, now \in Times : Store(h, ok, now)

OriginSpec == OriginInit /\ [][OriginNext]_vars

\* The worker on GETs of several hosts under several ALLOWED_ORIGINS, the
\* bucket empty and the origin out of reach.
AllowInit ==
  /\ envBillingDb = FALSE
  /\ alive = FALSE
  /\ this = FieldDefaults
  /\ storage = StorageDeleteAll
  /\ alarm = <<>>
  /\ pc = "idle"
  /\ flush = NoFlush
  /\ d1 = [sites |-> [s \in SiteIds |-> [cache_hits |-> 0, cache_misses |-> 0]],
           usage_hourly |-> [s \in SiteIds \cup {0} |-> Zero3]]
  /\ faults = 0
  /\ recorded = Zero3
  /\ acked = Zero3
  /\ during = Zero3
  /\ owed = NothingOwed
  /\ zeroed = FALSE
  /\ last = NoReturn
  /\ env \in [ALLOWED_ORIGINS : AllowLists, MAX_FILE_SIZE : {<<>>},
              FETCH_TIMEOUT : {<<>>}]
  /\ r2 = [k \in {} |-> 0]
  /\ handlers = [h \in Slots |-> Idle]
  /\ out = NoOut
  /\ fetching = [h \in Slots |-> NotFetching]

AllowNext ==
  \/ \E h \in Slots, request \in AllowRequests : Receive(h, request)
  \/ \E h \in Slots, ok \in BOOLEAN : CacheGet(h, ok)
  \/ \E h \in Slots, response \in FetchedResponses : OriginFetch(h, FALSE, response)

AllowSpec == AllowInit /\ [][AllowNext]_vars

\* fetchImageFromOrigin() called on its own, for every answer of the origin.
BlockNext == \E response \in BlockResponses : FetchImageFromOrigin(response)

BlockSpec == CdnInit /\ [][BlockNext]_vars

\* Two concurrent invocations of the worker on one key.
RaceInit ==
  /\ envBillingDb = FALSE
  /\ alive = FALSE
  /\ this = FieldDefaults
  /\ storage = StorageDeleteAll
  /\ alarm = <<>>
  /\ pc = "idle"
  /\ flush = NoFlush
  /\ d1 = [sites |-> [s \in SiteIds |-> [cache_hits |-> 0, cache_misses |-> 0]],
           usage_hourly |-> [s \in SiteIds \cup {0} |-> Zero3]]
  /\ faults = 0
  /\ recorded = Zero3
  /\ acked = Zero3
  /\ during = Zero3
  /\ owed = NothingOwed
  /\ zeroed = FALSE
  /\ last = NoReturn
  /\ env = [ALLOWED_ORIGINS |-> <<>>, MAX_FILE_SIZE |-> <<>>,
            FETCH_TIMEOUT |-> <<>>]
  /\ r2 = [k \in {} |-> 0]
  /\ handlers = [h \in RaceSlots |-> Idle]
  /\ out = NoOut
  /\ fetching = [h \in RaceSlots |-> NotFetching]

RaceNext ==
  \/ \E h \in RaceSlots : Receive(h, RaceRequest)
  \/ \E h \in RaceSlots, ok \in BOOLEAN : CacheGet(h, ok)
  \/ \E h \in RaceSlots, ok \in BOOLEAN, response \in RaceResponses :
       OriginFetch(h, ok, response)
  \/ \E h \in RaceSlots, ok \in BOOLEAN, now \in Times : Store(h, ok, now)

RaceSpec == RaceInit /\ [][RaceNext]_vars

\* fetchFromOrigin() called with or without the client's request, under
\* every ORIGIN_USER_AGENT and FORWARD_CLIENT_IP.
HeaderInit ==
  /\ envBillingDb = FALSE
  /\ alive = FALSE
  /\ this = FieldDefaults
  /\ storage = StorageDeleteAll
  /\ alarm = <<>>
  /\ pc = "idle"
  /\ flush = NoFlush
  /\ d1 = [sites |-> [s \in SiteIds |-> [cache_hits |-> 0, cache_misses |-> 0]],
           usage_hourly |-> [s \in SiteIds \cup {0} |-> Zero3]]
  /\ faults = 0
  /\ recorded = Zero3
  /\ acked = Zero3
  /\ during = Zero3
  /\ owed = NothingOwed
  /\ zeroed = FALSE
  /\ last = NoReturn
  /\ env \in [ALLOWED_ORIGINS : {<<>>}, MAX_FILE_SIZE : {<<>>},
              FETCH_TIMEOUT : {<<>>}, ORIGIN_USER_AGENT : UserAgents,
              FORWARD_CLIENT_IP : ForwardFlags]
  /\ r2 = [k \in {} |-> 0]
  /\ handlers = [h \in Slots |-> Idle]
  /\ out = NoOut
  /\ fetching = [h \in Slots |-> NotFetching]

HeaderNext == \E clientRequest \in ClientRequests : FetchWithHeaders(clientRequest)

HeaderSpec == HeaderInit /\ [][HeaderNext]_vars

\* ===================================================================
\* Properties

Minus(a, b) ==
  [requests |-> a.requests - b.requests,
   cacheHits |-> a.cacheHits - b.cacheHits,
   cacheMisses |-> a.cacheMisses - b.cacheMisses]

Plus(a, b) ==
  [requests |-> a.requests + b.requests,
   cacheHits |-> a.cacheHits + b.cacheHits,
   cacheMisses |-> a.cacheMisses + b.cacheMisses]

\* The step on which alarm() returns after a batch that succeeded / failed.
FlushedStep == pc = "flushing" /\ last'.op \in {"flushed", "flushedPutFailed"}
FailedStep == pc = "flushing" /\ last'.op \in {"failed", "failedPutFailed"}

\* The counters an eviction would leave the instance with.
Live == IF alive THEN Counters(this) ELSE Persisted

\* What the billing database holds for the site, per table.
SinkHourly ==
  [requests |-> d1.usage_hourly[CHOOSE s \in SiteIds : TRUE].requests,
   cacheHits |-> d1.usage_hourly[CHOOSE s \in SiteIds : TRUE].cacheHits,
   cacheMisses |-> d1.usage_hourly[CHOOSE s \in SiteIds : TRUE].cacheMisses]

SinkSites ==
  [cacheHits |-> d1.sites[CHOOSE s \in SiteIds : TRUE].cache_hits,
   cacheMisses |-> d1.sites[CHOOSE s \in SiteIds : TRUE].cache_misses]

\* What the billing database has received under any site id.
RECURSIVE SumRows(_, _)
SumRows(rows, ids) ==
  IF ids = {} THEN Zero3
  ELSE LET s == CHOOSE x \in ids : TRUE
       IN  Plus(rows[s], SumRows(rows, ids \ {s}))

Written == SumRows(d1.usage_hourly, DOMAIN d1.usage_hourly)

\* No batch has been written yet.
NothingFlushed ==
  \A s \in DOMAIN d1.usage_hourly : d1.usage_hourly[s] = Zero3

\* C1: when a flush's batch succeeds, the counters after the flush are the
\* counters at that moment minus exactly the snapshot, which leaves exactly
\* the events recorded since the snapshot; they are not reset to zero, and
\* the write that follows persists those same values.
C1_FlushSubtractsSnapshot ==
  [][FlushedStep =>
       /\ Counters(this') = Minus(Counters(this), flush)
       /\ Counters(this') = during
       /\ (last'.op = "flushed" => Persisted' = Counters(this'))]_vars

\* A flush has just succeeded and an event recorded during its write is
\* still in the counters, in memory and in storage.
C1_Witness ==
  /\ last.op = "flushed"
  /\ this.requests > 0
  /\ Persisted = Counters(this)
  /\ SinkHourly.requests > 0

\* C2: N record-events, with every write persisted and no flush written in
\* between, leave requests = N, cacheHits = the number of hits and
\* cacheHits + cacheMisses = N, in storage and in memory.
C2_EventsSumExactly ==
  (NothingFlushed /\ ~zeroed /\ acked = recorded) =>
    /\ Persisted = recorded
    /\ alive => Counters(this) = recorded
    /\ Persisted.cacheHits + Persisted.cacheMisses = recorded.requests

C2_Witness ==
  /\ NothingFlushed /\ ~zeroed /\ acked = recorded
  /\ alive
  /\ last.op = "fetch"
  /\ this.requests >= 2
  /\ this.cacheHits >= 1
  /\ this.cacheMisses >= 1

Consistent(c) ==
  /\ c.requests \in Nat
  /\ c.cacheHits \in Nat
  /\ c.cacheMisses \in Nat
  /\ c.requests = c.cacheHits + c.cacheMisses

\* C4: in every reachable state the counters in memory and in storage are
\* non-negative integers with requests = cacheHits + cacheMisses, and the
\* failure counter is a non-negative integer.
C4_CountersConsistent ==
  /\ Consistent(Counters(this))
  /\ Consistent(Persisted)
  /\ this.d1Failures \in Nat
  /\ StoredOr(STORAGE_KEYS.D1_FAILURES, 0) \in Nat

\* After a flush whose write to storage failed, memory and storage differ
\* and both are consistent.
C4_Witness ==
  /\ last.op = "flushedPutFailed"
  /\ Counters(this) # Persisted
  /\ this.requests > 0
  /\ Persisted.requests > this.requests

\* C5: while no storage operation has failed and no unbound alarm() has
\* cleared the counters, whenever no flush is in progress what the billing
\* database has received plus the live counters is what was recorded.
C5_NothingLostOrDoubled ==
  (pc = "idle" /\ faults = 0 /\ ~zeroed) =>
    /\ Plus(SinkHourly, Live) = recorded
    /\ SinkSites.cacheHits + Live.cacheHits = recorded.cacheHits
    /\ SinkSites.cacheMisses + Live.cacheMisses = recorded.cacheMisses

\* Part flushed, part still live, after a failed flush.
C5_Witness ==
  /\ pc = "idle" /\ faults = 0 /\ ~zeroed
  /\ SinkHourly.requests > 0
  /\ Live.requests > 0
  /\ StoredOr(STORAGE_KEYS.D1_FAILURES, 0) > 0

FlushReturns ==
  {"alarmIdle", "flushed", "flushedPutFailed", "failed", "failedPutFailed"}

C8_AckedIsDurable ==
  [][(last'.op = "fetch" /\ last'.status = 200) =>
       /\ this'.requests = this.requests + 1
       /\ Persisted' = Counters(this')
       /\ Counters(LoadFromStorage') = Counters(this')]_vars

\* An acknowledged event, recorded while a flush awaits its batch.
C8_Witness ==
  /\ last.op = "fetch"
  /\ last.status = 200
  /\ pc = "flushing"
  /\ Persisted = Counters(this)
  /\ this.requests > flush.requests

\* C9: the constructor leaves a scheduled alarm as it is, sets one a period
\* ahead when there is none and BILLING_DB is bound, sets none otherwise,
\* and loads the stored counters without changing storage.
C9_StartupKeepsAlarm ==
  [][(~alive /\ last'.op = "construct") =>
       /\ alarm # <<>> => alarm' = alarm
       /\ (alarm = <<>> /\ envBillingDb) => alarm' = <<ALARM_DELAY_MS>>
       /\ (alarm = <<>> /\ ~envBillingDb) => alarm' = <<>>
       /\ storage' = storage
       /\ Counters(this') = Persisted
       /\ this'.d1Failures = StoredOr(STORAGE_KEYS.D1_FAILURES, 0)]_vars

\* A re-hydration that found an alarm part of the way to its time, and
\* counters in storage.
C9_Witness ==
  /\ last.op = "construct"
  /\ alarm # <<>>
  /\ alarm # NextAlarm
  /\ this.requests > 0

C11_IdleFlushOnlyReschedules ==
  [][last'.op = "alarmIdle" =>
       /\ envBillingDb /\ Woken.requests = 0
       /\ d1' = d1
       /\ Counters(this') = Counters(Woken)
       /\ this'.d1Failures = Woken.d1Failures
       /\ storage' = storage
       /\ flush' = flush /\ pc' = "idle"
       /\ last'.timer => alarm' = NextAlarm]_vars

\* An idle alarm() of an instance that has flushed before and whose stored
\* counters are behind a failed write: storage is not touched even then.
C11_Witness ==
  /\ last.op = "alarmIdle"
  /\ last.timer
  /\ alarm = NextAlarm
  /\ Written.requests > 0
  /\ Persisted # Counters(this)

\* ======================================================================
\* The worker's claims, checked under CdnSpec.
\* ======================================================================
\* How often the invocation made a call.
Calls(log, name) == Cardinality({i \in DOMAIN log : log[i] = name})

\* A GET has just returned.
GetReturned == out.returned /\ out.request.method = "GET"

\* The returned request's parse, and the object the bucket now holds for it.
OutParsed == Parsed(out.request)
OutKey == OutParsed.cacheKey

\* env.ALLOWED_ORIGINS || '*'
OutAllowed ==
  isAllowedOrigin(OutParsed.sourceUrl,
                  IF env.ALLOWED_ORIGINS = <<>> THEN <<"*">> ELSE env.ALLOWED_ORIGINS)

\* The origin answered the returned invocation, and with what.
OriginAnswered == out.returned /\ "origin" \in DOMAIN out

\* The origin's answer passes every validation of fetch().
Acceptable(response) ==
  /\ response.status \in 200..299
  /\ isImageContentType(response.contentType)
  /\ ~ParseFileSizeThrows(MaxFileSize)
  /\ ~DeclaredTooLarge(response, parseFileSize(MaxFileSize))
  /\ ~ActualTooLarge(response, parseFileSize(MaxFileSize))

\* The response is an image served by GET.
ServedImage ==
  /\ GetReturned
  /\ out.response.status = 200
  /\ out.response.xStatus \in {<<"hit">>, <<"miss">>}

\* C12 (as claimed): a GET that serves an image, from the cache or from the
\* origin, emits exactly one usage event to the tracker.
C12_ServedImageEmitsUsageEvent ==
  ServedImage => Calls(out.calls, "USAGE_TRACKER.fetch") = 1

\* C13: a GET whose key the bucket does not hold, answered by the origin with
\* a 2xx image within the size limit and stored, returns 200 with
\* X-ImgPro-Status miss and the fetched bytes, and the bucket then holds,
\* under domain + path, an object of those bytes and that content type.
C13_MissFetchesAndStores ==
  (/\ GetReturned
   /\ OriginAnswered
   /\ OutKey \notin DOMAIN out.before
   /\ Acceptable(out.origin)
   /\ ~OutParsed.viewImage
   /\ Calls(out.calls, "R2.put rejected") = 0)
  => /\ out.response.status = 200
     /\ out.response.xStatus = <<"miss">>
     /\ out.response.contentType = out.origin.contentType
     /\ out.response.body = [kind |-> "bytes", bytes |-> out.origin.body.bytes,
                             size |-> out.origin.body.size]
     /\ OutKey = OutParsed.domain \o OutParsed.path
     /\ OutKey \in DOMAIN r2
     /\ r2[OutKey].body = out.origin.body
     /\ r2[OutKey].httpMetadata.contentType = out.origin.contentType
     /\ \A k \in DOMAIN r2 \ {OutKey} : k \in DOMAIN out.before /\ r2[k] = out.before[k]

\* A miss on one key while the bucket already holds another: the object is
\* added and the other is left alone.
C13_Witness ==
  /\ GetReturned
  /\ out.response.xStatus = <<"miss">>
  /\ out.before # <<>>
  /\ OutKey \notin DOMAIN out.before
  /\ DOMAIN r2 = DOMAIN out.before \cup {OutKey}
  /\ out.calls = <<"R2.get", "fetch", "arrayBuffer", "R2.put">>

\* C14: a GET without force whose key the bucket holds, and whose
\* If-None-Match is not the object's etag, returns 200 with X-ImgPro-Status
\* hit, the object's bytes, content type and etag, without a call to the
\* origin, and leaves the bucket as it was.
C14_HitServesStored ==
  (/\ GetReturned
   /\ OutParsed.ok
   /\ OutAllowed
   /\ out.request.force \notin {<<"true">>, <<"1">>}
   /\ Calls(out.calls, "R2.get rejected") = 0
   /\ OutKey \in DOMAIN out.before
   /\ ~OutParsed.viewImage
   /\ out.request.ifNoneMatch # <<out.before[OutKey].etag>>)
  => /\ out.response.status = 200
     /\ out.response.xStatus = <<"hit">>
     /\ out.response.body.kind = "bytes"
     /\ out.response.body.bytes = out.before[OutKey].body.bytes
     /\ out.response.contentType = out.before[OutKey].httpMetadata.contentType
     /\ out.response.etag = <<out.before[OutKey].etag>>
     /\ Calls(out.calls, "fetch") = 0
     /\ out.calls = <<"R2.get">>
     /\ r2 = out.before

\* A hit whose If-None-Match names another etag than the object's.
C14_Witness ==
  /\ GetReturned
  /\ out.response.xStatus = <<"hit">>
  /\ out.request.ifNoneMatch # <<>>
  /\ out.response.etag # out.request.ifNoneMatch

\* The object storeInCache() makes of the origin's answer alone, at now.
Fresh(response, now) ==
  [body |-> response.body, size |-> response.body.size,
   etag |-> Etag(response.body),
   httpMetadata |-> [contentType |-> response.contentType,
                     cacheControl |-> CACHE_CONTROL],
   customMetadata |-> [sourceUrl |-> OutParsed.sourceUrl.href,
                       domain |-> OutParsed.domain, cachedAt |-> now]]

\* C15: a GET with force=true or force=1, for an allowed host, makes no
\* R2.get and calls the origin, whatever the bucket holds; when the answer
\* passes the validations and is stored, the object under the key is made of
\* the new bytes and content type only.
C15_ForceBypassesCache ==
  (/\ GetReturned
   /\ OutParsed.ok
   /\ out.request.force \in {<<"true">>, <<"1">>}
   /\ OutAllowed)
  => /\ Calls(out.calls, "R2.get") + Calls(out.calls, "R2.get rejected") = 0
     /\ Calls(out.calls, "fetch") + Calls(out.calls, "fetch rejected") = 1
     /\ out.calls[1] \in {"fetch", "fetch rejected"}
     /\ (/\ OriginAnswered
         /\ Acceptable(out.origin)
         /\ Calls(out.calls, "R2.put rejected") = 0)
        => /\ Calls(out.calls, "R2.put") = 1
           /\ \E now \in Times : r2[OutKey] = Fresh(out.origin, now)

\* A forced GET with force=1 over an object of other bytes and another
\* content type, which it replaces.
C15_Witness ==
  /\ GetReturned
  /\ out.request.force = <<"1">>
  /\ out.response.xStatus = <<"miss">>
  /\ OutKey \in DOMAIN out.before
  /\ out.before[OutKey].body # r2[OutKey].body
  /\ out.before[OutKey].httpMetadata # r2[OutKey].httpMetadata

\* C16 (as claimed): an origin answer of 200, text/html and 2,000 bytes is
\* classified html_challenge_page, the GET ends with 503, and the bucket is
\* left as it was.
C16_ChallengePageIs503 ==
  (/\ GetReturned
   /\ OriginAnswered
   /\ out.origin.status = 200
   /\ out.origin.contentType = HTML
   /\ out.origin.body.size = 2000)
  => /\ detectBlockedResponse(out.origin).reason = <<"html_challenge_page">>
     /\ out.response.status = 503
     /\ r2 = out.before

\* C17: a GET that returns 403, 404, 503, 415, 413, or 500 from a step before
\* storeInCache(), leaves the bucket as the invocation found it, with or
\* without force.
C17_ErrorsLeaveBucket ==
  (/\ GetReturned
   /\ out.response.status \in {403, 404, 503, 415, 413, 500}
   /\ Calls(out.calls, "R2.put rejected") = 0)
  => /\ r2 = out.before
     /\ Calls(out.calls, "R2.put") = 0

\* A forced GET over an object, refused as too large after its body was read.
C17_Witness ==
  /\ GetReturned
  /\ out.request.force = <<"true">>
  /\ out.response.status = 413
  /\ OutKey \in DOMAIN out.before
  /\ Calls(out.calls, "arrayBuffer") = 1

\* C18 (as claimed): when storeInCache() rejects after the origin's bytes
\* were read and validated, the GET still returns the image, and the bucket
\* does not hold it.
C18_FailedWriteStillServes ==
  (GetReturned /\ Calls(out.calls, "R2.put rejected") = 1)
  => /\ out.response.status = 200
     /\ out.response.body = [kind |-> "bytes", bytes |-> out.origin.body.bytes,
                             size |-> out.origin.body.size]
     /\ r2 = out.before

\* The request was handed to parseUrl().
Routed == out.returned /\ out.request.method # "OPTIONS"
          /\ out.request.pathname \notin HealthPaths

\* C19 (as claimed): a request whose path has fewer than two segments, or
\* whose first segment is not a valid domain, returns a 4xx with the error's
\* message, whatever its method, without a call to the bucket or the origin.
C19_BadPathIs4xx ==
  (/\ Routed
   /\ ~OutParsed.ok
   /\ OutParsed.error.text \in {"Invalid URL format: /domain.com/path/to/image.jpg",
                                "Invalid domain: "})
  => /\ out.response.status \in 400..499
     /\ out.response.body.error = OutParsed.error
     /\ out.calls = <<>>
     /\ r2 = out.before

\* C20: DELETE of a key the bucket does not hold returns 404 and leaves the
\* bucket as it was; DELETE of a key it holds returns 200 with the cacheKey
\* and removes that object and no other, so that get and HEAD of the key
\* then find nothing; DELETE never calls the origin.
C20_DeleteRemovesExactlyThatKey ==
  (/\ out.returned
   /\ out.request.method = "DELETE"
   /\ OutParsed.ok
   /\ Calls(out.calls, "R2.get rejected") = 0
   /\ Calls(out.calls, "R2.delete rejected") = 0)
  => /\ OutKey \notin DOMAIN out.before
        => /\ out.response.status = 404
           /\ r2 = out.before
           /\ out.calls = <<"R2.get">>
     /\ OutKey \in DOMAIN out.before
        => /\ out.response.status = 200
           /\ out.response.body.cacheKey = OutKey
           /\ DOMAIN r2 = DOMAIN out.before \ {OutKey}
           /\ \A k \in DOMAIN r2 : r2[k] = out.before[k]
           /\ getFromCache(OutKey) = <<>>
           /\ handleHeadRequest(getFromCache(OutKey)).status = 404
           /\ out.calls = <<"R2.get", "R2.delete">>
     /\ Calls(out.calls, "fetch") + Calls(out.calls, "fetch rejected") = 0

\* A DELETE, its key written with an escaped slash, of one of the two
\* objects the bucket held.
C20_Witness ==
  /\ out.returned
  /\ out.request.method = "DELETE"
  /\ out.response.status = 200
  /\ "%2F" \in Range(out.request.pathname)
  /\ Cardinality(DOMAIN out.before) = 2
  /\ Cardinality(DOMAIN r2) = 1

\* A HEAD has just returned.
HeadReturned == out.returned /\ out.request.method = "HEAD"

\* C21: HEAD of a key the bucket holds returns 200 with the object's content
\* type, size, etag and cachedAt and no body; HEAD of a key it does not hold
\* returns 404 with no body; and no HEAD, whatever its path and outcome,
\* calls the origin or R2.get, R2.put or R2.delete, or changes the bucket.
C21_HeadReportsEntry ==
  HeadReturned
  => /\ r2 = out.before
     /\ \A i \in DOMAIN out.calls : out.calls[i] \in {"R2.head", "R2.head rejected"}
     /\ (Routed /\ OutParsed.ok /\ Calls(out.calls, "R2.head rejected") = 0)
        => /\ out.calls = <<"R2.head">>
           /\ out.response.body = NoBody
           /\ IF OutKey \in DOMAIN r2
              THEN /\ out.response.status = 200
                   /\ out.response.contentType = r2[OutKey].httpMetadata.contentType
                   /\ ParseInt(out.response.contentLength) = <<r2[OutKey].body.size>>
                   /\ out.response.etag = <<r2[OutKey].etag>>
                   /\ out.response.cachedAt = r2[OutKey].customMetadata.cachedAt
              ELSE out.response.status = 404

\* A HEAD of one of two objects, stored at different instants.
C21_Witness ==
  /\ HeadReturned
  /\ out.response.status = 200
  /\ out.response.xStatus = <<"cached">>
  /\ Cardinality(DOMAIN r2) = 2
  /\ \E k \in DOMAIN r2 :
       r2[k].customMetadata.cachedAt # out.response.cachedAt

\* C22: a GET of a parsed path whose host isAllowedOrigin() refuses under
\* env.ALLOWED_ORIGINS returns 403 Origin not allowed without any call to
\* the bucket or to the origin, whether or not the bucket holds its key, and
\* with or without force.
C22_ForbiddenHostStops ==
  (GetReturned /\ Routed /\ OutParsed.ok /\ ~OutAllowed)
  => /\ out.response.status = 403
     /\ out.response.body.kind = "json"
     /\ out.response.body.error = [text |-> "Origin not allowed"]
     /\ out.calls = <<>>
     /\ r2 = out.before

\* A refused GET of a key the bucket holds, stored under an earlier
\* ALLOWED_ORIGINS.
C22_Witness ==
  /\ GetReturned
  /\ out.response.status = 403
  /\ ~OutParsed.forceReprocess
  /\ OutKey \in DOMAIN r2

\* C23: after the origin has answered a GET: a status outside 200..299 gives
\* 404 when it is 404 and 503 otherwise; a 2xx answer whose Content-Type
\* isImageContentType() refuses gives 415, oversize or not, without its body
\* being read; an image type whose declared or actual length exceeds
\* MAX_FILE_SIZE gives 413; in these cases nothing is stored. An object is
\* stored, and the image returned, only when status, type and size all pass.
C23_ChecksInOrder ==
  (GetReturned /\ OriginAnswered)
  => LET origin == out.origin
         image == isImageContentType(origin.contentType)
         maxSize == parseFileSize(MaxFileSize)
         oversize == DeclaredTooLarge(origin, maxSize) \/ ActualTooLarge(origin, maxSize)
         refused == /\ r2 = out.before
                    /\ Calls(out.calls, "R2.put") = 0
     IN
     /\ origin.status \notin 200..299
        => /\ out.response.status = IF origin.status = 404 THEN 404 ELSE 503
           /\ refused
     /\ (origin.status \in 200..299 /\ ~image)
        => /\ out.response.status = 415
           /\ Calls(out.calls, "arrayBuffer") = 0
           /\ refused
     /\ (origin.status \in 200..299 /\ image /\ ~ParseFileSizeThrows(MaxFileSize)
           /\ oversize)
        => /\ out.response.status = 413
           /\ refused
     /\ (Calls(out.calls, "R2.put") = 1 \/ out.response.status = 200)
        => /\ Acceptable(origin)
           /\ out.response.status = 200
           /\ out.calls[Len(out.calls)] = "R2.put"
           /\ r2[OutKey].body = origin.body

\* A 2xx answer that is neither an image nor within the limit: 415.
C23_Witness ==
  /\ GetReturned
  /\ OriginAnswered
  /\ out.origin.status = 200
  /\ ~isImageContentType(out.origin.contentType)
  /\ ~ParseFileSizeThrows(MaxFileSize)
  /\ ActualTooLarge(out.origin, parseFileSize(MaxFileSize))
  /\ out.response.status = 415

\* C24: a GET without force, for an allowed host, of a key the bucket holds
\* with etag E: when its If-None-Match is E it returns 304 with no body, ETag
\* E and the Cache-Control of the 200 answer, after one R2.get and nothing
\* else, the bucket unchanged; when its If-None-Match is another value or is
\* absent it returns 200 with the object's bytes.
C24_ConditionalGet ==
  (/\ GetReturned
   /\ Routed
   /\ OutParsed.ok
   /\ OutAllowed
   /\ out.request.force \notin {<<"true">>, <<"1">>}
   /\ Calls(out.calls, "R2.get rejected") = 0
   /\ OutKey \in DOMAIN out.before)
  => LET cached == out.before[OutKey] IN
     IF out.request.ifNoneMatch = <<cached.etag>>
     THEN /\ out.response.status = 304
          /\ out.response.body = NoBody
          /\ out.response.etag = ServeCached(cached).etag
          /\ out.response.etag = <<cached.etag>>
          /\ out.response.cacheControl = ServeCached(cached).cacheControl
          /\ out.calls = <<"R2.get">>
          /\ r2 = out.before
     ELSE ~OutParsed.viewImage
          => /\ out.response.status = 200
             /\ out.response.body = [kind |-> "bytes", bytes |-> cached.body.bytes,
                                     size |-> cached.size]

\* A 304 for one of two objects held.
C24_Witness ==
  /\ GetReturned
  /\ out.response.status = 304
  /\ out.request.ifNoneMatch = <<r2[OutKey].etag>>
  /\ Cardinality(DOMAIN r2) = 2

\* C25 (under SizeSpec): for an origin answer of an image type, the body is
\* read and accepted exactly when its length is at most the limit and its
\* Content-Length, when it is a number, is at most the limit too; a
\* Content-Length above the limit is refused with 413 before the body is
\* read; a body above the limit is refused with 413 after it was read, also
\* when the Content-Length is absent, not a number or understated; a body
\* of exactly the limit is accepted; and a refused body is not stored.
C25_BoundedRead ==
  (GetReturned /\ OriginAnswered)
  => LET limit == parseFileSize(MaxFileSize)
         declared == ParseInt(out.origin.contentLength)
         actual == out.origin.body.size
         declaredOver == declared # <<>> /\ declared[1] > limit
         accepted == /\ Calls(out.calls, "arrayBuffer") = 1
                     /\ out.response.status # 413
     IN
     /\ accepted <=> (actual <= limit /\ ~declaredOver)
     /\ declaredOver
        => /\ out.response.status = 413
           /\ Calls(out.calls, "arrayBuffer") = 0
     /\ (~declaredOver /\ actual > limit)
        => /\ out.response.status = 413
           /\ Calls(out.calls, "arrayBuffer") = 1
     /\ ~accepted
        => /\ r2 = out.before
           /\ Calls(out.calls, "R2.put") = 0

\* A body of exactly the limit, accepted and stored, its Content-Length not
\* a number.
C25_Witness ==
  /\ GetReturned
  /\ OriginAnswered
  /\ out.origin.body.size = parseFileSize(MaxFileSize)
  /\ out.origin.contentLength # <<>>
  /\ ParseInt(out.origin.contentLength) = <<>>
  /\ out.response.status = 200
  /\ r2[OutKey].body = out.origin.body

\* The fetchFromOrigin() call of the invocation that has just returned: the
\* requests it sent, and the URL of the last.
OutFetching == fetching[out.slot]
OutHops == OutFetching.hops
OutFinalUrl == OutHops[Len(OutHops)]
OutRedirected == Len(OutHops) > 1

\* fetchFromOrigin() threw: fetch() got no response from it.
OutFetchThrew ==
  /\ out.calls[Len(out.calls)] = "fetch rejected"
  /\ "origin" \notin DOMAIN out

\* C26 (under OriginSpec): when the fetch was redirected and the URL it
\* ended at is refused by validateUrlForFetch(), or by the validateRedirect
\* that was passed, fetchFromOrigin() throws, whether the URL it was called
\* with was valid or not: fetch() gets no response, answers 500 with the
\* error, and stores nothing.
C26_BadRedirectIsHardFailure ==
  (/\ GetReturned
   /\ OutRedirected
   /\ ~validateUrlForFetch(OutFinalUrl) \/ OutFetching.allowed = <<FALSE>>)
  => /\ OutFetchThrew
     /\ out.response.status = 500
     /\ out.response.body.kind = "json"
     /\ out.response.body.error.text
          \in {"Redirect to invalid URL blocked: ",
               "Redirect to non-allowed origin blocked: ",
               "Request timeout after ", "fetch failed"}
     /\ Calls(out.calls, "R2.put") = 0
     /\ r2 = out.before

\* A chain of two redirects from a public host, by a public host, to a
\* link-local address, whose answer is thrown away.
C26_Witness ==
  /\ GetReturned
  /\ Len(OutHops) = 3
  /\ validateUrlForFetch(OutHops[1])
  /\ validateUrlForFetch(OutHops[2])
  /\ OutFinalUrl.host = LinkLocalAddress
  /\ out.response.status = 500
  /\ out.response.body.error.text = "Redirect to invalid URL blocked: "

\* C27 (as claimed, under OriginSpec): every request a fetchFromOrigin()
\* sends, the first and the one of each redirect hop, goes to a URL that
\* validateUrlForFetch() accepts.
C27_NoRequestToDisallowedTarget ==
  \A h \in Slots : \A i \in DOMAIN fetching[h].hops :
    validateUrlForFetch(fetching[h].hops[i])

\* What does hold: the first request goes to an accepted URL.
C27_FirstRequestValidated ==
  \A h \in Slots :
    fetching[h].hops # <<>> => validateUrlForFetch(fetching[h].hops[1])

\* The invocation that has just returned was answered with the timeout error.
OutTimedOut ==
  /\ GetReturned
  /\ out.response.status = 500
  /\ out.response.body.error.text = "Request timeout after "

ClaimedEntries(list) == {ToLowerCase(Trim(e)) : e \in Range(Split(list, ","))}
IsSubdomainOf(hostname, suffix) == EndsWith(hostname, <<".">> \o suffix)
ClaimedAllowed(hostname, list) ==
  \/ list = <<"*">>
  \/ \E e \in ClaimedEntries(list) :
       \/ e = <<"*">>
       \/ StartsWith(e, <<"*", ".">>) /\ IsSubdomainOf(hostname, SubSeq(e, 3, Len(e)))
       \/ ~StartsWith(e, <<"*", ".">>) /\ hostname = e

\* C28 (as claimed, under AllowSpec): a GET is let past the origin check
\* exactly when the list is *, or an entry is *, or an entry *.suffix names
\* a suffix the host is a subdomain of, or an exact entry equals the host.
C28_AllowListAsClaimed ==
  (GetReturned /\ OutParsed.ok)
  => (out.response.status # 403
      <=> ClaimedAllowed(OutParsed.sourceUrl.host,
                         IF env.ALLOWED_ORIGINS = <<>> THEN <<"*">>
                         ELSE env.ALLOWED_ORIGINS))

\* The classification as the claim states it, the HTML cases told apart by
\* the length of the body.
ClaimedBlockReason(response) ==
  LET contentType == ToLowerCase(response.contentType) IN
  IF response.status \in {401, 403} THEN <<"http_", response.status>>
  ELSE IF response.status = 429 THEN <<"rate_limited">>
  ELSE IF Includes(contentType, HTML)
  THEN IF response.body.size < 50000 THEN <<"html_challenge_page">>
       ELSE <<"html_instead_of_image">>
  ELSE IF StartsWith(contentType, <<"t", "e", "x", "t", "/">>)
  THEN <<"text_instead_of_image">>
  ELSE IF Includes(contentType, <<"a", "p", "p", "l", "i", "c", "a", "t", "i", "o",
                                  "n", "/", "j", "s", "o", "n">>)
  THEN <<"json_instead_of_image">>
  ELSE IF contentType # <<>> /\ ~StartsWith(contentType, <<"i", "m", "a", "g", "e", "/">>)
  THEN <<"non_image_content_type">>
  ELSE <<>>

\* C29 (as claimed, under BlockSpec): fetchImageFromOrigin() returns, for
\* every answer, the reason the claim's precedence gives, and blocked exactly
\* when there is one.
C29_BlockClassification ==
  (out.returned /\ "result" \in DOMAIN out)
  => /\ out.result.blockReason = ClaimedBlockReason(out.origin)
     /\ out.result.blocked <=> ClaimedBlockReason(out.origin) # <<>>

\* The names of the headers the origin may be sent.
SendableHeaders ==
  {<<"U", "s", "e", "r", "-", "A", "g", "e", "n", "t">>, <<"A", "c", "c", "e", "p", "t">>, <<"A", "c", "c", "e", "p", "t", "-", "L", "a", "n", "g", "u", "a", "g", "e">>, <<"R", "e", "f", "e", "r", "e", "r">>, <<"X", "-", "F", "o", "r", "w", "a", "r", "d", "e", "d", "-", "F", "o", "r">>}

\* The User-Agent the claim names: the override, else the client's, else
\* the fixed default.
ClaimedUserAgent ==
  IF env.ORIGIN_USER_AGENT # <<>> THEN env.ORIGIN_USER_AGENT
  ELSE IF out.client # <<>> /\ HeadersGet(out.client[1].headers, <<"U", "s", "e", "r", "-", "A", "g", "e", "n", "t">>) # <<>>
  THEN HeadersGet(out.client[1].headers, <<"U", "s", "e", "r", "-", "A", "g", "e", "n", "t">>)
  ELSE FALLBACK_HEADERS[<<"U", "s", "e", "r", "-", "A", "g", "e", "n", "t">>]

\* C31 (under HeaderSpec): the headers sent to the origin carry only the
\* five sendable names and none of the deny-listed ones, always a User-Agent
\* (the override before the client's before the default), and an
\* X-Forwarded-For only when FORWARD_CLIENT_IP is "true".
C31_OnlySendableHeaders ==
  (out.returned /\ "headers" \in DOMAIN out)
  => /\ DOMAIN out.headers \subseteq SendableHeaders
     /\ \A name \in DOMAIN out.headers : ToLowerCase(name) \notin BLOCKED_HEADERS
     /\ <<"U", "s", "e", "r", "-", "A", "g", "e", "n", "t">> \in DOMAIN out.headers
     /\ out.headers[<<"U", "s", "e", "r", "-", "A", "g", "e", "n", "t">>] # <<>>
     /\ out.headers[<<"U", "s", "e", "r", "-", "A", "g", "e", "n", "t">>] = ClaimedUserAgent
     /\ <<"X", "-", "F", "o", "r", "w", "a", "r", "d", "e", "d", "-", "F", "o", "r">> \in DOMAIN out.headers
          => env.FORWARD_CLIENT_IP = <<"t", "r", "u", "e">>

\* A client that sent credentials, a User-Agent and an X-Forwarded-For of
\* its own, under an override and the forwarding flag: the origin gets the
\* override and the caller's address.
C31_Witness ==
  /\ out.returned /\ "headers" \in DOMAIN out
  /\ out.client # <<>>
  /\ {<<"a", "u", "t", "h", "o", "r", "i", "z", "a", "t", "i", "o", "n">>, <<"c", "o", "o", "k", "i", "e">>, <<"u", "s", "e", "r", "-", "a", "g", "e", "n", "t">>, <<"x", "-", "f", "o", "r", "w", "a", "r", "d", "e", "d", "-", "f", "o", "r">>}
       \subseteq DOMAIN out.client[1].headers
  /\ env.ORIGIN_USER_AGENT # <<>>
  /\ out.headers[<<"U", "s", "e", "r", "-", "A", "g", "e", "n", "t">>] = env.ORIGIN_USER_AGENT
  /\ <<"X", "-", "F", "o", "r", "w", "a", "r", "d", "e", "d", "-", "F", "o", "r">> \in DOMAIN out.headers
  /\ out.headers[<<"X", "-", "F", "o", "r", "w", "a", "r", "d", "e", "d", "-", "F", "o", "r">>] = <<"1", ".", "2", ".", "3", ".", "4">>
  /\ <<"R", "e", "f", "e", "r", "e", "r">> \in DOMAIN out.headers

\* ======================================================================
\* Further claims about the tracker, checked under Spec.
\* ======================================================================

\* The failure counter as storage holds it.
StoredFailures == StoredOr(STORAGE_KEYS.D1_FAILURES, 0)

\* C32 (as claimed): a flush whose batch() failed adds one to the failure
\* counter, persists it and alerts exactly when it has reached the
\* threshold; a flush whose batch() succeeded sets it to zero in memory and
\* in storage, together with the decremented counters; no other step
\* changes the counter the instance works with.
C32_FailureCounterCounts ==
  [][/\ FailedStep =>
          /\ this'.d1Failures = this.d1Failures + 1
          /\ StoredFailures' = this'.d1Failures
          /\ last'.alert <=> this'.d1Failures >= D1_FAILURE_ALERT_THRESHOLD
     /\ FlushedStep =>
          /\ this'.d1Failures = 0
          /\ StoredFailures' = 0
          /\ Persisted' = Counters(this')
     /\ ~(FailedStep \/ FlushedStep) => Woken'.d1Failures = Woken.d1Failures]_vars

\* C32 as amended: the counter in memory goes up by one on a failed batch()
\* and to zero on a successful one; storage follows when its put succeeds
\* and is left as it was when the put throws; the alert is emitted on a
\* failed batch() exactly when the put succeeded and the counter has reached
\* the threshold; idle flushes and record-events change the counter neither
\* in memory nor in storage, and a live instance changes it in no other
\* step.
C32_FailureCounterSteps ==
  [][/\ FailedStep =>
          /\ this'.d1Failures = this.d1Failures + 1
          /\ last'.op = "failed" => StoredFailures' = this'.d1Failures
          /\ last'.op = "failedPutFailed" => storage' = storage
          /\ last'.alert <=> /\ last'.op = "failed"
                             /\ this'.d1Failures >= D1_FAILURE_ALERT_THRESHOLD
     /\ FlushedStep =>
          /\ this'.d1Failures = 0
          /\ last'.op = "flushed" =>
               (StoredFailures' = 0 /\ Persisted' = Counters(this'))
          /\ last'.op = "flushedPutFailed" => storage' = storage
     /\ last'.op \in {"alarmIdle", "fetch"} =>
          /\ this'.d1Failures = Woken.d1Failures
          /\ StoredFailures' = StoredFailures
     /\ (~(FailedStep \/ FlushedStep) /\ alive /\ alive') =>
          this'.d1Failures = this.d1Failures]_vars

\* The fifth failed batch() in a row has been counted, persisted and
\* alerted.
C32_Witness ==
  /\ last.op = "failed"
  /\ last.alert
  /\ this.d1Failures = D1_FAILURE_ALERT_THRESHOLD
  /\ StoredFailures = D1_FAILURE_ALERT_THRESHOLD

\* What the billing database holds (under the site's id and under id 0)
\* and the instance still has to flush, over what was recorded: positive where an amount is counted twice,
\* negative where one is lost.
Received == Plus(SinkHourly, d1.usage_hourly[0])
Excess == Minus(Plus(Received, Live), recorded)

\* Storage holds more than the live instance: counters it has flushed.
Undecremented == alive /\ Persisted.requests > this.requests

\* C33: a flush whose batch() succeeded and whose put threw decrements the
\* counters in memory, leaves the failure counter at zero and storage as it
\* was; while the instance lives nothing is counted twice and the next put
\* that succeeds stores the counters of memory; an eviction makes the
\* constructor load what storage holds, so the excess grows by what storage
\* held over memory, and the flush of the reloaded instance snapshots those
\* counters; the excess grows on no other step, and storage gets ahead of a
\* live instance on no other step than that flush.
C33_DoubleCountingWindow ==
  [][/\ (pc = "flushing" /\ last'.op = "flushedPutFailed") =>
          /\ Counters(this') = Minus(Counters(this), flush)
          /\ this'.d1Failures = 0
          /\ storage' = storage
          /\ Received' = Plus(Received, Counters(flush))
     /\ (alive /\ alive' /\ last'.op # "alarmUnbound") => Excess' = Excess
     /\ ((last'.op = "fetch" /\ last'.status = 200) \/ last'.op = "flushed") =>
          Persisted' = Counters(this')
     /\ (alive /\ ~alive') =>
          /\ Counters(Woken') = Persisted
          /\ Excess' = Plus(Excess, Minus(Persisted, Counters(this)))
     /\ (~alive /\ last'.op = "alarmSnapshot") => Counters(flush') = Persisted
     /\ (~(alive /\ alive') /\ Excess'.requests > Excess.requests) =>
          (Undecremented /\ ~alive')
     /\ (Undecremented' /\ ~Undecremented) =>
          (pc = "flushing" /\ last'.op = "flushedPutFailed")]_vars

\* The reloaded instance has flushed again what the billing database
\* already held: it has received more than was recorded.
C33_Witness ==
  /\ last.op = "flushed"
  /\ Received.requests > recorded.requests
  /\ Excess.requests > 0
  /\ faults = 1

Unpersisted == Minus(Counters(this), Persisted)

\* C37: a record-event answered 500 has counted the event in memory and
\* left storage as it was, so memory is ahead of storage by one event more;
\* a flush of the live instance snapshots the counters of memory, and a put
\* that succeeds stores them; an eviction leaves the instance with what
\* storage holds, so what memory held over storage is lost; and nothing is
\* lost on any other step, an unbound alarm() apart.
C37_FailedPutKeepsIncrement ==
  [][/\ (last'.op = "fetch" /\ last'.status = 500) =>
          /\ Minus(Counters(this'), Counters(this)) = Minus(recorded', recorded)
          /\ this'.requests = this.requests + 1
          /\ storage' = storage
          /\ acked' = acked
          /\ Unpersisted' = Plus(Unpersisted, Minus(recorded', recorded))
     /\ (alive /\ last'.op = "alarmSnapshot") => Counters(flush') = Counters(this)
     /\ (last'.op = "flushed" \/ (last'.op = "fetch" /\ last'.status = 200)) =>
          Unpersisted' = Zero3
     /\ (alive /\ ~alive') =>
          /\ Live' = Persisted
          /\ Excess' = Minus(Excess, Unpersisted)
     /\ Excess'.requests < Excess.requests =>
          \/ alive /\ ~alive' /\ Unpersisted.requests > 0
          \/ last'.op = "alarmUnbound"]_vars

\* The event of a record-event answered 500 was in memory only when the
\* instance was evicted: the instance built since knows less than was
\* recorded and not yet flushed.
C37_Witness ==
  /\ alive
  /\ last.op = "construct"
  /\ ~zeroed
  /\ faults = 1
  /\ acked.requests < recorded.requests
  /\ Excess.requests < 0
  /\ Unpersisted = Zero3

\* ======================================================================
\* Further claims about the worker.
\* ======================================================================

\* The object a put of response alone makes, but for its cachedAt.
MadeOf(object, response) ==
  /\ object.body = response.body
  /\ object.size = response.body.size
  /\ object.etag = Etag(response.body)
  /\ object.httpMetadata.contentType = response.contentType

\* The invocation that returned last has written the bucket.
OutStored ==
  /\ GetReturned
  /\ out.calls # <<>>
  /\ out.calls[Len(out.calls)] = "R2.put"

\* C34 (under RaceSpec): every object of the bucket is made of one origin
\* answer, bytes and content type, and after an invocation has stored, the
\* object under its key is made of the answer that invocation got, whatever
\* another invocation had stored there meanwhile.
C34_LastWriteWins ==
  /\ \A k \in DOMAIN r2 : \E response \in RaceResponses : MadeOf(r2[k], response)
  /\ OutStored => \E now \in Times : r2[OutKey] = Fresh(out.origin, now)

\* Both invocations have missed, fetched and stored: the one that returned
\* last found the bucket empty at its entry and, at its put, the other's
\* object of other bytes and another content type, which it has replaced.
C34_Witness ==
  /\ OutStored
  /\ \A h \in RaceSlots : handlers[h].pc = "idle"
  /\ OutKey \notin DOMAIN out.before
  /\ OutKey \in DOMAIN out.found
  /\ out.found[OutKey].body # out.origin.body
  /\ out.found[OutKey].httpMetadata.contentType # out.origin.contentType
  /\ MadeOf(r2[OutKey], out.origin)

\* The object under key k is what a GET that passed every validation
\* stores: k is the cache key of a parsed GET, the content type is an image
\* type, the size is within MAX_FILE_SIZE, and bytes, size and content type
\* are those of one 2xx answer of the origin.
ValidEntry(k) ==
  /\ \E request \in Requests :
       /\ request.method = "GET"
       /\ Parsed(request).ok
       /\ Parsed(request).cacheKey = k
       /\ Parsed(request).domain = r2[k].customMetadata.domain
       /\ Parsed(request).sourceUrl.href = r2[k].customMetadata.sourceUrl
  /\ r2[k].httpMetadata.contentType \in ImageContentTypes
  /\ ~ParseFileSizeThrows(MaxFileSize)
  /\ r2[k].size <= parseFileSize(MaxFileSize)
  /\ \E response \in OriginResponses :
       /\ response.status \in 200..299
       /\ response.body = r2[k].body
       /\ response.body.size = r2[k].size
       /\ response.contentType = r2[k].httpMetadata.contentType

\* The step is the storeInCache() of a GET for a host the allow-list admits,
\* whose answer passed the validations: it puts that object under its key
\* and changes nothing else.
StoredStep ==
  /\ OutStored'
  /\ OutParsed'.ok
  /\ OutAllowed'
  /\ Acceptable(out.origin)'
  /\ \E now \in Times :
       r2' = [k \in DOMAIN r2 \cup {OutKey'} |->
                IF k = OutKey' THEN Fresh(out.origin, now)' ELSE r2[k]]

\* The step is the deleteFromCache() of a DELETE that found its key.
DeletedStep ==
  /\ out'.returned
  /\ out'.request.method = "DELETE"
  /\ out'.response.status = 200
  /\ OutKey' \in DOMAIN r2
  /\ r2' = [k \in DOMAIN r2 \ {OutKey'} |-> r2[k]]

\* C38: in every state every object of the bucket is a valid entry, and
\* the bucket changes only by the put of a validated GET and by the delete
\* of a DELETE that found its key.
C38_OnlyValidatedEntries ==
  /\ [](\A k \in DOMAIN r2 : ValidEntry(k))
  /\ [][r2' # r2 => (StoredStep \/ DeletedStep)]_vars

\* An object stored for b.co while every host was admitted is still there
\* after ALLOWED_ORIGINS has been set to a.co alone.
C38_Witness ==
  /\ env.ALLOWED_ORIGINS = ACo
  /\ \E k \in DOMAIN r2 :
       /\ r2[k].customMetadata.domain = BCo
       /\ ValidEntry(k)

\* The invocation that returned last asked for a key the bucket held at its
\* entry, of a host that env.ALLOWED_ORIGINS does not admit.
OutForbiddenHit ==
  /\ out.returned /\ Routed /\ OutParsed.ok
  /\ ~OutAllowed
  /\ OutKey \in DOMAIN out.before

\* C39: for a key the bucket holds and a host the allow-list refuses, a
\* DELETE removes the object and answers 200, a HEAD answers 200 with the
\* object's content type, size and etag, neither being answered 403, and a
\* GET answers 403 and leaves the object where it is.
C39_AllowListConstrainsOnlyGet ==
  OutForbiddenHit =>
    /\ (/\ out.request.method = "DELETE"
        /\ Calls(out.calls, "R2.get rejected") = 0
        /\ Calls(out.calls, "R2.delete rejected") = 0)
       => /\ out.response.status = 200
          /\ out.calls = <<"R2.get", "R2.delete">>
          /\ OutKey \notin DOMAIN r2
    /\ (out.request.method = "HEAD" /\ Calls(out.calls, "R2.head rejected") = 0)
       => /\ out.response.status = 200
          /\ out.calls = <<"R2.head">>
          /\ out.response.contentType = out.before[OutKey].httpMetadata.contentType
          /\ out.response.etag = <<out.before[OutKey].etag>>
          /\ ParseInt(out.response.contentLength) = <<out.before[OutKey].size>>
          /\ r2 = out.before
    /\ out.request.method \in {"DELETE", "HEAD"} => out.response.status # 403
    /\ out.request.method = "GET"
       => /\ out.response.status = 403
          /\ out.calls = <<>>
          /\ r2 = out.before
          /\ OutKey \in DOMAIN r2

\* A DELETE has removed an object of b.co while ALLOWED_ORIGINS admits
\* a.co alone.
C39_Witness ==
  /\ OutForbiddenHit
  /\ out.request.method = "DELETE"
  /\ out.response.status = 200
  /\ OutKey \notin DOMAIN r2
  /\ env.ALLOWED_ORIGINS # <<>>
====
